---- MODULE Spec2Model ----
(***************************************************************************)
(* State-machine model of the backtesting engine: the Cerebro bar loop     *)
(* (src/src/cerebro.cpp), the Broker order book and matching               *)
(* (src/src/broker.cpp, src/include/bt/broker.hpp), the Order state        *)
(* machine (src/include/bt/order.hpp), the Strategy order helpers          *)
(* (src/src/strategy.cpp) and the data-feed cursor                         *)
(* (src/include/bt/datafeed.hpp, src/include/bt/linebuffer.hpp).           *)
(*                                                                         *)
(* Prices, sizes and datetimes are small integers; a Value that the code   *)
(* obtains by division (the average position price, a trade's pnl) is an   *)
(* exact fraction [n, d].                                                  *)
(***************************************************************************)
EXTENDS Integers, Sequences, FiniteSets, TLC

\* ---------------------------------------------------------------- bounds
NumBars == 4       \* bars loaded in the data feed
MaxCalls == 2      \* buy / sell / buyBracket / cancel calls in one run
MaxExecuted == 4   \* total size executed on a free-standing order
NumWorkers == 2    \* most worker threads of a ThreadPool
MaxTasks == 3      \* most tasks submitted to a ThreadPool
MaxParams == 2     \* most parameters of an optimization grid
MaxUpdates == 3    \* Position::update calls on a free-standing Position
MaxLen == 2        \* largest capacity of a bounded line buffer
MaxPush == 4       \* values pushed to one line buffer
MaxPos == 4        \* advance calls on a bounded buffer stop at this cursor
NumLines == 2      \* lines of a line series
MaxValues == 2     \* most values of one parameter of a grid
MaxRuns == 2       \* calls of Cerebro::run on one Cerebro

\* ------------------------------------------------------- exact fractions
Abs(x) == IF x < 0 THEN -x ELSE x

RECURSIVE GCD(_, _)
GCD(a, b) == IF b = 0 THEN a ELSE GCD(b, a % b)

Rat(n, d) ==
    LET g == GCD(Abs(n), Abs(d))
        s == IF d < 0 THEN -1 ELSE 1
    IN  [n |-> (s * n) \div g, d |-> (s * d) \div g]

RInt(x) == [n |-> x, d |-> 1]
RAdd(a, b) == Rat(a.n * b.d + b.n * a.d, a.d * b.d)
RSub(a, b) == Rat(a.n * b.d - b.n * a.d, a.d * b.d)
RMulInt(a, k) == Rat(a.n * k, a.d)
RDivInt(a, k) == Rat(a.n, a.d * k)
RNeg(a) == [n |-> -a.n, d |-> a.d]

Min(a, b) == IF a < b THEN a ELSE b

\* ------------------------------------------------------------- data feed
\* The bars loaded into the feed (MemoryDataFeed::addBar), 0-based.  The
\* pattern repeats with period 4; datetimes strictly increase.
BarOpen   == <<100, 100, 100, 108>>
BarHigh   == <<101, 102, 106, 111>>
BarLow    == <<99, 98, 94, 96>>
BarClose  == <<100, 100, 100, 110>>
BarVolume == <<1000, 1000, 1000, 1>>

LoadedBar(i) ==
    [open |-> BarOpen[(i % 4) + 1], high |-> BarHigh[(i % 4) + 1],
     low |-> BarLow[(i % 4) + 1], close |-> BarClose[(i % 4) + 1],
     volume |-> BarVolume[(i % 4) + 1], datetime |-> i + 1]

FeedLength == NumBars

\* UnboundedStorage::advance: the cursor moves unless it is on the last slot
StorageAdvance(pos) == IF pos < FeedLength - 1 THEN pos + 1 ELSE pos

\* DataFeed::reset: currentIdx_ = 0; home()
DataReset == [pos |-> 0, currentIdx |-> 0]

\* DataFeed::next
DataNext(f) ==
    IF f.currentIdx >= FeedLength THEN f
    ELSE [pos |-> StorageAdvance(f.pos), currentIdx |-> f.currentIdx + 1]

RECURSIVE DataNextTimes(_, _)
DataNextTimes(f, k) == IF k = 0 THEN f ELSE DataNextTimes(DataNext(f), k - 1)

\* Cerebro::runOnce, "Position data at current bar": reset, then bar+1 next()
PositionData(bar) == DataNextTimes(DataReset, bar + 1)

\* ----------------------------------------------------------------- order
Terminal == {"Completed", "Canceled", "Expired", "Margin", "Rejected"}

\* Order::isAlive
IsAlive(o) == o.status \in {"Created", "Submitted", "Accepted", "Partial"}

DataName == "data0"        \* the feed Cerebro::addData registered
KnownData == {DataName}    \* Broker::dataFeeds_
OtherDataName == "other"   \* name of a feed that was not added to Cerebro

\* Order as Broker::buy / Broker::sell build it (other members at defaults)
NewOrder(ref, side, type, size, price, data) ==
    [ref |-> ref, id |-> 0, side |-> side, type |-> type, size |-> size,
     price |-> price, data |-> data, status |-> "Submitted",
     parent |-> 0, oco |-> 0, transmit |-> TRUE, validUntil |-> 0,
     execPrice |-> 0, execSize |-> 0, execComm |-> 0,
     executedSize |-> 0, executedRemsize |-> 0, executedDt |-> 0,
     executedPrice |-> RInt(0)]

\* Order::Order(id, side, type, size): a free-standing order
CtorOrder(id, side, type, size) ==
    [NewOrder(0, side, type, size, 0, "") EXCEPT !.id = id,
                                                  !.status = "Created"]

\* Order::submit, accept, cancel, margin, complete, partial
OrderSetStatus(o, st) == [o EXCEPT !.status = st]

\* Order::reject
OrderReject(o) ==
    IF o.status = "Rejected" THEN o ELSE [o EXCEPT !.status = "Rejected"]

\* Order::expire(currentDt)
OrderExpire(o, currentDt) ==
    IF o.type = "Market" THEN o
    ELSE IF o.validUntil > 0 /\ currentDt > o.validUntil
    THEN [o EXCEPT !.status = "Expired", !.executedDt = currentDt]
    ELSE o

\* Order::execute(dt, sz, pr, ...) with OrderData::add: the accumulated
\* size, average price, remaining size and datetime, and the status
OrderExecute(o, dt, sz, pr) ==
    IF sz = 0 THEN o
    ELSE LET nprice == IF o.executedSize = 0 THEN RInt(pr)
                       ELSE RDivInt(RAdd(RMulInt(o.executedPrice, o.executedSize),
                                         RInt(sz * pr)),
                                    o.executedSize + sz)
             nrem == Abs(o.executedRemsize - sz)
         IN  [o EXCEPT !.executedPrice = nprice,
                       !.executedSize = o.executedSize + sz,
                       !.executedRemsize = nrem,
                       !.executedDt = dt,
                       !.execPrice = nprice.n \div nprice.d,
                       !.execSize = o.executedSize + sz,
                       !.status = IF nrem > 0 THEN "Partial" ELSE "Completed"]


\* ------------------------------------------------- line buffer: values
\* LineBuffer() / LineBuffer(qbuffer): UnboundedStorage or QBufferStorage.
\* pushed is the history of the values pushed since construction or reset,
\* calls the number of values pushed since construction.
NewBuffer(mode, maxlen) ==
    [mode |-> mode, maxlen |-> maxlen, data |-> <<>>, pos |-> 0,
     totalPushed |-> 0, pushed |-> <<>>, calls |-> 0]

\* push_back of a bounded storage that never drops its oldest value
StoragePush_NoEvict(b, v) ==
    [b EXCEPT !.data = Append(@, v), !.totalPushed = @ + 1,
              !.pushed = Append(@, v), !.calls = @ + 1]

\* UnboundedStorage::push_back, QBufferStorage::push_back
StoragePush(b, v) ==
    IF b.mode = "unbounded"
    THEN [b EXCEPT !.data = Append(@, v),
                   !.pushed = Append(@, v), !.calls = @ + 1]
    ELSE [b EXCEPT !.data = Append(IF Len(b.data) >= b.maxlen
                                   THEN Tail(b.data) ELSE b.data, v),
                   !.totalPushed = @ + 1,
                   !.pushed = Append(@, v), !.calls = @ + 1]

\* What a read returns: a number, or NaN
Number(v) == [nan |-> FALSE, value |-> v]
NaN == [nan |-> TRUE, value |-> 0]

\* at() of a bounded storage that counts back from the cursor
StorageAt_FromCursor(b, idx) ==
    LET actual == b.pos - idx
    IN  IF actual < 0 \/ actual >= Len(b.data) THEN NaN
        ELSE Number(b.data[actual + 1])

\* UnboundedStorage::at const, QBufferStorage::at const
StorageAt(b, idx) ==
    LET actual == IF b.mode = "unbounded" THEN b.pos - idx
                  ELSE Len(b.data) - 1 - idx
    IN  IF actual < 0 \/ actual >= Len(b.data) THEN NaN
        ELSE Number(b.data[actual + 1])

\* size() and length() of the two storages
StorageSize(b) == Len(b.data)
StorageLength(b) ==
    IF b.mode = "unbounded" THEN Len(b.data) ELSE b.totalPushed

\* UnboundedStorage::advance, QBufferStorage::advance
BufferAdvance(b) ==
    IF b.mode = "unbounded"
    THEN (IF b.pos < Len(b.data) - 1 THEN [b EXCEPT !.pos = @ + 1] ELSE b)
    ELSE [b EXCEPT !.pos = @ + 1]

\* UnboundedStorage::rewind, QBufferStorage::rewind
BufferRewind(b) == IF b.pos > 0 THEN [b EXCEPT !.pos = @ - 1] ELSE b

\* UnboundedStorage::home, QBufferStorage::home
BufferHome(b) == [b EXCEPT !.pos = 0]

\* UnboundedStorage::clear, QBufferStorage::clear
BufferClear(b) ==
    [b EXCEPT !.data = <<>>, !.pos = 0, !.totalPushed = 0, !.pushed = <<>>]


\* ------------------------------------------------------------ variables
VARIABLES
    cfg,             \* broker / strategy configuration chosen before run()
    pc,              \* position of Cerebro::run / runOnce
    bar,             \* loop variable of the main loop of runOnce
    feed,            \* DataFeed cursor: [pos, currentIdx]
    stopRequested,   \* Cerebro::stopRequested_
    stopCall,        \* history: the Cerebro::stop call, [called, thread]
    calledNextStart, \* local flag of runOnce
    cash,            \* Broker::cash_
    pos,             \* Broker::positions_[data0]: [size, price]
    orders,          \* Broker::orders_ (index = ref)
    orderId,         \* Broker::orderId_
    trades,          \* Broker::trades_
    notifications,   \* orders handed to the order callback, with the status
    hooks,           \* history: strategy hooks called, with the bar
    phases,          \* history: phases run for the current bar, in order
    born,            \* history: loop bar during which each order was created
    fills,           \* history: one record per Broker::executeOrder
    pool,            \* ThreadPool: tasks_, activeJobs_, stop_, worker threads
    owner,           \* thread that owns the pool: position, futures, history
    opt,             \* Cerebro::runOptimize: grid, results, strategy, shared feed
    position,        \* a free-standing Position: size_, price_, last update
    buffer,          \* a free-standing LineBuffer: storage, cursor, history
    series,          \* a free-standing LineSeries: its line buffers
    timers,          \* a TimerManager: timers_, lastDay_, history of check
    signal,          \* a call of signal_utils::evaluate: value, type, result
    analyzer,        \* the TradeAnalyzer added to Cerebro: counters, analysis_
    observers,       \* Cerebro::observers_: kind, how added, line buffers
    result,          \* local RunResult of runOnce: strategy index, startCash
    results,         \* the vector of RunResult that run() builds and returns
    runs,            \* calls of Cerebro::run so far
    cancelCalls      \* history: orders passed to Strategy::cancel, with the run

vars == <<cfg, pc, bar, feed, stopRequested, stopCall, calledNextStart, cash,
          pos, orders, orderId, trades, notifications, hooks, phases, born,
          fills, pool, owner, opt, position, buffer, series, timers, signal,
          analyzer, observers, result, results, runs, cancelCalls>>

cerebroVars == <<pc, bar, feed, stopRequested, stopCall, calledNextStart,
                 hooks, phases>>
brokerVars == <<cash, pos, orders, orderId, trades, notifications, born, fills>>
optVars == <<pool, owner, opt>>
libVars == <<position, buffer, series, timers, signal>>
runVars == <<analyzer, observers, result, results, runs, cancelCalls>>

\* --------------------------------------------- library objects: values
\* No free-standing Position, LineBuffer, LineSeries or TimerManager has
\* been constructed, and evaluate has not been called
NoUpdate == [update |-> FALSE, size |-> 0, delta |-> 0, price |-> 0]
NoPosition == [size |-> 0, price |-> RInt(0), last |-> NoUpdate, calls |-> 0]
NoBuffer == [mode |-> "none"]
NoSeries == [mode |-> "none"]
NoDateTime == [month |-> 0, day |-> 0, minutes |-> 0]
NoCheck == [checked |-> FALSE, dt |-> NoDateTime, cheatPhase |-> FALSE,
            triggered |-> {}]
NoTimers == [timers |-> <<>>, lastDay |-> -1, prev |-> NoCheck,
             last |-> NoCheck]
NoSignal == [called |-> FALSE, value |-> [nan |-> FALSE, value |-> 0],
             type |-> "SIGNAL_NONE", result |-> 0]

LibInit ==
    /\ position = NoPosition
    /\ buffer = NoBuffer
    /\ series = NoSeries
    /\ timers = NoTimers
    /\ signal = NoSignal

\* ------------------------------------------------- thread pool: values
\* Value returned by the task with this id (the tests submit i -> 2 * i)
TaskResult(t) == 2 * t

\* What running the task with this id ends in: the second task submitted
\* throws, the others return their value
TaskOutcome(t) == IF t = 2 THEN "exception" ELSE "value"

\* ThreadPool::ThreadPool(numThreads): every worker thread enters workerLoop
NewPool(n) ==
    [tasks |-> <<>>, activeJobs |-> 0, stop |-> FALSE,
     workers |-> [w \in 1..n |-> [pc |-> "wait", task |-> 0]]]

\* No pool has been constructed
NoPool == [tasks |-> <<>>, activeJobs |-> 0, stop |-> FALSE, workers |-> <<>>]

\* The shared state of std::packaged_task / std::future for a new task, with
\* the number of times the task was run and whether get() has returned
NewFuture == [state |-> "pending", value |-> 0, runs |-> 0, got |-> FALSE]

\* No thread uses a pool
NoOwner ==
    [prog |-> "none", pc |-> "none", after |-> "none", futures |-> <<>>,
     blocked |-> FALSE, waited |-> FALSE]

\* The wait predicate with the queue left out
WorkerPredicate_StopOnly(p) == p.stop

\* ThreadPool::workerLoop: predicate of condition_.wait
WorkerPredicate(p) == p.stop \/ p.tasks # <<>>

\* The quiescence predicate with the active jobs left out
QuiescencePredicate_QueueOnly(p) == p.tasks = <<>>

\* ThreadPool::waitAll: predicate of doneCondition_.wait
QuiescencePredicate(p) == p.tasks = <<>> /\ p.activeJobs = 0

\* ThreadPool::submit, the block under the mutex: the task is queued
SubmitTask(p, t) == [p EXCEPT !.tasks = Append(@, t)]

\* condition_.notify_one(): the pools that can result, one blocked worker (if
\* there is one) being made to re-evaluate its predicate
NotifyOne(p) ==
    LET blocked == {w \in DOMAIN p.workers : p.workers[w].pc = "blocked"}
    IN  IF blocked = {} THEN {p}
        ELSE {[p EXCEPT !.workers[w].pc = "wait"] : w \in blocked}

\* A notify_all that wakes no thread
NotifyAll_WakesNone(p) == p

\* condition_.notify_all()
NotifyAll(p) ==
    [p EXCEPT !.workers =
        [w \in DOMAIN p.workers |->
            IF p.workers[w].pc = "blocked"
            THEN [p.workers[w] EXCEPT !.pc = "wait"]
            ELSE p.workers[w]]]

\* Engine variables are not used by the pool
engineVars ==
    <<cfg, pc, bar, feed, stopRequested, stopCall, calledNextStart, cash, pos,
      orders, orderId, trades, notifications, hooks, phases, born, fills,
      analyzer, observers, result, results, runs, cancelCalls>>


\* ------------------------------------------------ optimization: values
\* k-th value of the j-th parameter of a grid
GridValue(j, k) == 100 * j + k

\* ParameterGrid after addParam calls: one value list per parameter
GridOf(n, k) == [j \in 1..n |-> [i \in 1..k[j] |-> GridValue(j, i)]]

\* ParameterGrid::generate, "total combinations": product of the sizes
TotalCombinations(grid) ==
    LET RECURSIVE upTo(_)
        upTo(j) == IF j = 0 THEN 1 ELSE upTo(j - 1) * Len(grid[j])
    IN  upTo(Len(grid))

\* ParameterGrid::totalCombinations: total starts at 1 and is multiplied by
\* the size of every value list
GridTotalCombinations(grid) ==
    LET RECURSIVE total(_)
        total(j) == IF j = 0 THEN 1 ELSE total(j - 1) * Len(grid[j])
    IN  total(Len(grid))

\* ParameterGrid::generate, "update indices": the last index is incremented,
\* with carry into the indices before it
RECURSIVE NextIndices(_, _, _)
NextIndices(grid, indices, j) ==
    IF j = 0 THEN indices
    ELSE IF indices[j] + 1 < Len(grid[j])
    THEN [indices EXCEPT ![j] = @ + 1]
    ELSE NextIndices(grid, [indices EXCEPT ![j] = 0], j - 1)

\* The main loop with its last iteration left out
RECURSIVE GenerateFrom_DropLast(_, _, _, _)
GenerateFrom_DropLast(grid, indices, i, total) ==
    IF i + 1 >= total THEN <<>>
    ELSE <<[j \in 1..Len(grid) |-> grid[j][indices[j] + 1]]>>
         \o GenerateFrom_DropLast(grid, NextIndices(grid, indices, Len(grid)),
                                  i + 1, total)

\* ParameterGrid::generate, the main loop from iteration i on
RECURSIVE GenerateFrom(_, _, _, _)
GenerateFrom(grid, indices, i, total) ==
    IF i >= total THEN <<>>
    ELSE <<[j \in 1..Len(grid) |-> grid[j][indices[j] + 1]]>>
         \o GenerateFrom(grid, NextIndices(grid, indices, Len(grid)), i + 1,
                         total)

\* ParameterGrid::generate
Generate(grid) ==
    IF Len(grid) = 0 THEN <<>>
    ELSE GenerateFrom(grid, [j \in 1..Len(grid) |-> 0], 0,
                      TotalCombinations(grid))

\* The grids given to optStrategy
Grids ==
    {g \in UNION {{GridOf(n, k) : k \in [1..n -> 0..MaxValues]} :
                    n \in 0..MaxParams} :
        TotalCombinations(g) <= MaxTasks}

\* What the optimized strategy does in its first hook: nothing, or, when
\* its first parameter is ThrowValue, throw a std::runtime_error or throw a
\* value of a type not derived from std::exception
Strategies == {"quiet", "throws_std", "throws_other"}
ThrowValue == GridValue(1, 2)
RunThrows(strategy, params) == strategy # "quiet" /\ params[1] = ThrowValue

\* The sentinel P&L of a failed run, -1e10; P&L values are counted in tens
Sentinel == -(10 ^ 9)

\* A worker that is not inside an optimization run
NoRun == [pc |-> "none", bar |-> 0]

\* The feed added to the optimizing Cerebro: name and cursor
SharedFeed == [name |-> DataName, pos |-> DataReset.pos,
               currentIdx |-> DataReset.currentIdx]

\* runOptimize has not been called
NoOpt ==
    [grid |-> <<>>, strategy |-> "quiet", threads |-> 1, paramSets |-> <<>>,
     results |-> <<>>, shared |-> SharedFeed, runs |-> <<>>]

\* -------------------------------------------------------- configuration
StartCash == 100000
LowCash == 150             \* Cerebro::setCash with less than one order costs

\* SlippageConfig (perc in hundredths), the volume filler, the per-share
\* commission of a Fixed CommInfo (0: none), Strategy::minPeriod_, and what
\* the strategy's hooks do (the hooks of the base Strategy are empty): the
\* order types they pass to buy / sell, whether they call buyBracket, and
\* whether they cancel orders; the cash given to Cerebro::setCash, the names
\* of the feeds the hooks pass to buy / sell, and Cerebro's cheat_on_open;
\* the number of feeds given to Cerebro::addData, the bars loaded in the feed,
\* the number of Cerebro::addStrategy calls, Cerebro's stdstats, and the
\* number of times the caller calls run(); for a SignalStrategy, accumMode_,
\* exitOnOpposite_, useAllSignals_ and the size its sizer returns
DefaultCfg ==
    [slipPerc |-> 0, slipFixed |-> 0, filler |-> "Default", fillerMax |-> 0,
     commission |-> 0, minPeriod |-> 1, types |-> {}, brackets |-> FALSE,
     cancels |-> FALSE, cash |-> StartCash, datas |-> {DataName},
     cheatOnOpen |-> FALSE, feeds |-> 1, bars |-> NumBars, strategies |-> 1,
     stdstats |-> TRUE, runs |-> 1, accumMode |-> "LongShort",
     exitOnOpposite |-> TRUE, useAllSignals |-> FALSE, stake |-> 1]

Configs ==
    { [DefaultCfg EXCEPT !.types = {"Market", "Limit"}, !.brackets = TRUE,
                         !.cancels = TRUE],
      [DefaultCfg EXCEPT !.slipFixed = 4, !.filler = "BarVolume",
                         !.fillerMax = 100, !.minPeriod = 2,
                         !.types = {"Market", "Limit"}],
      [DefaultCfg EXCEPT !.filler = "Fixed", !.fillerMax = 1,
                         !.commission = 1, !.minPeriod = 3,
                         !.types = {"Market", "Limit", "Stop"}],
      [DefaultCfg EXCEPT !.cash = LowCash, !.types = {"Limit"},
                         !.datas = {DataName, OtherDataName}],
      [DefaultCfg EXCEPT !.cheatOnOpen = TRUE, !.minPeriod = 2] }
    \cup { [DefaultCfg EXCEPT !.minPeriod = p] : p \in 0..(NumBars + 1) }

\* ---------------------------------------------------------------- broker
\* CommInfo::getCommission, CommType::Fixed
GetCommission(size, price) == Abs(size) * cfg.commission

\* Broker::applySlippage
ApplySlippage(price, isBuy) ==
    LET slipAmount == IF cfg.slipPerc > 0 THEN (price * cfg.slipPerc) \div 100
                      ELSE IF cfg.slipFixed > 0 THEN cfg.slipFixed
                      ELSE 0
    IN  IF isBuy THEN price + slipAmount ELSE price - slipAmount

\* VolumeFiller::fill of DefaultFiller, BarVolumeFiller, FixedVolumeFiller
FillerFill(o, volume) ==
    CASE cfg.filler = "Default" -> Abs(o.size)
      [] cfg.filler = "BarVolume" ->
            Min(Abs(o.size), (volume * cfg.fillerMax) \div 100)
      [] cfg.filler = "Fixed" -> Min(Abs(o.size), cfg.fillerMax)

\* Position update of Broker::executeOrder
UpdatePosition(p, isBuy, price, size) ==
    IF isBuy THEN
        IF p.size >= 0 THEN
            LET total == RAdd(RMulInt(p.price, p.size), RInt(price * size))
                nsize == p.size + size
            IN  [size |-> nsize,
                 price |-> IF nsize > 0 THEN RDivInt(total, nsize) ELSE RInt(0)]
        ELSE
            LET nsize == p.size + size
            IN  [size |-> nsize,
                 price |-> IF nsize >= 0 THEN RInt(price) ELSE p.price]
    ELSE
        IF p.size <= 0 THEN
            LET total == RAdd(RMulInt(p.price, Abs(p.size)), RInt(price * size))
                nsize == p.size - size
            IN  [size |-> nsize,
                 price |-> IF nsize < 0 THEN RDivInt(total, Abs(nsize))
                           ELSE RInt(0)]
        ELSE
            LET nsize == p.size - size
            IN  [size |-> nsize,
                 price |-> IF nsize <= 0
                           THEN (IF nsize < 0 THEN RInt(price) ELSE RInt(0))
                           ELSE p.price]

\* Status an execution leaves the order in (Broker::executeOrder, last lines)
ExecutedStatus(o, fillSize) == "Completed"

\* Broker::executeOrder on orders_[i]; b is the broker state, ctx the loop
\* bar and cursor (history only)
ExecuteOrder(b, i, price, fillSize, ctx) ==
    LET o == b.orders[i]
        isBuy == o.side = "Buy"
        size == fillSize
        comm == GetCommission(size, price)
        cost == price * size
        ncash == IF isBuy THEN b.cash - (cost + comm) ELSE b.cash + (cost - comm)
        oldSize == b.pos.size
        npos == UpdatePosition(b.pos, isBuy, price, size)
        wasFlat == oldSize = 0
        isFlat == npos.size = 0
        closed == ~wasFlat /\ isFlat
        rawPnl == RMulInt(RSub(RInt(price), npos.price), Abs(oldSize))
        pnl == IF oldSize < 0 THEN RNeg(rawPnl) ELSE rawPnl
        trade == [ref |-> Len(b.trades) + 1, dataName |-> o.data,
                  size |-> IF isBuy THEN size ELSE -size,
                  price |-> price, commission |-> comm,
                  isOpen |-> ~closed,
                  pnl |-> IF closed THEN pnl ELSE RInt(0),
                  pnlComm |-> IF closed THEN RSub(pnl, RInt(comm)) ELSE RInt(0)]
        norder == [o EXCEPT !.status = ExecutedStatus(o, fillSize),
                            !.execPrice = price, !.execSize = size,
                            !.execComm = comm]
        fill == [ref |-> o.ref, bar |-> ctx.bar, cursor |-> ctx.cursor,
                 price |-> price, size |-> size,
                 statusBefore |-> o.status,
                 parentStatus |-> IF o.parent = 0 THEN "none"
                                  ELSE b.orders[o.parent].status]
    IN  [b EXCEPT !.cash = ncash, !.pos = npos,
                  !.trades = Append(b.trades, trade),
                  !.orders[i] = norder,
                  !.fills = Append(b.fills, fill)]

\* Trigger with the fill price of a Limit order taken on the wrong side of
\* the open (max for a buy, min for a sell)
Trigger_LimitWrongSide(o, barv) ==
    CASE o.type = "Market" -> [exec |-> TRUE, price |-> barv.open]
      [] o.type = "Limit" ->
            IF o.side = "Buy" /\ barv.low <= o.price
            THEN [exec |-> TRUE,
                  price |-> IF barv.open > o.price THEN barv.open ELSE o.price]
            ELSE IF o.side # "Buy" /\ barv.high >= o.price
            THEN [exec |-> TRUE,
                  price |-> IF barv.open < o.price THEN barv.open ELSE o.price]
            ELSE [exec |-> FALSE, price |-> 0]
      [] OTHER -> [exec |-> FALSE, price |-> 0]

\* Trigger condition and trigger price of Broker::tryExecute (the switch)
Trigger(o, barv) ==
    CASE o.type = "Market" -> [exec |-> TRUE, price |-> barv.open]
      [] o.type = "Limit" ->
            IF o.side = "Buy" /\ barv.low <= o.price
            THEN [exec |-> TRUE,
                  price |-> IF barv.open < o.price THEN barv.open ELSE o.price]
            ELSE IF o.side # "Buy" /\ barv.high >= o.price
            THEN [exec |-> TRUE,
                  price |-> IF barv.open > o.price THEN barv.open ELSE o.price]
            ELSE [exec |-> FALSE, price |-> 0]
      [] OTHER -> [exec |-> FALSE, price |-> 0]

\* Broker::tryExecute on orders_[i]: [b, done]
TryExecute(b, i, ctx) ==
    LET o == b.orders[i]
        barv == LoadedBar(ctx.cursor)
        t == Trigger(o, barv)
    IN  IF o.data \notin KnownData THEN [b |-> b, done |-> FALSE]
        ELSE IF t.exec THEN
            LET fillSize == FillerFill(o, barv.volume)
                execPrice == ApplySlippage(t.price, o.side = "Buy")
            IN  [b |-> ExecuteOrder(b, i, execPrice, fillSize, ctx),
                 done |-> TRUE]
        ELSE [b |-> b, done |-> FALSE]

\* Orders Broker::next hands to tryExecute
Matchable(o) == o.status = "Submitted"

\* Broker::next: the loop over orders_ from index i on
RECURSIVE BrokerNextFrom(_, _, _)
BrokerNextFrom(b, i, ctx) ==
    IF i > Len(b.orders) THEN b
    ELSE IF ~Matchable(b.orders[i]) THEN BrokerNextFrom(b, i + 1, ctx)
    ELSE LET r == TryExecute(b, i, ctx)
             nb == IF r.done
                   THEN [r.b EXCEPT !.notifications =
                            Append(@, [ref |-> r.b.orders[i].ref,
                                       status |-> r.b.orders[i].status])]
                   ELSE r.b
         IN  BrokerNextFrom(nb, i + 1, ctx)

BrokerState ==
    [cash |-> cash, pos |-> pos, orders |-> orders, trades |-> trades,
     notifications |-> notifications, fills |-> fills]

\* Broker::cancel(orderId)
BrokerCancel(b, id) ==
    LET hit(i) == b.orders[i].ref = id /\ IsAlive(b.orders[i])
        hitSeq == SelectSeq(b.orders, LAMBDA o : o.ref = id /\ IsAlive(o))
    IN  [b EXCEPT
           !.orders = [i \in DOMAIN b.orders |->
                          IF hit(i) THEN [b.orders[i] EXCEPT !.status = "Canceled"]
                          ELSE b.orders[i]],
           !.notifications = @ \o [k \in DOMAIN hitSeq |->
                                     [ref |-> hitSeq[k].ref, status |-> "Canceled"]]]


\* -------------------------------------------------------------- strategy
\* Arguments the strategy passes to Strategy::buy / Strategy::sell
OrderRequests ==
    [side : {"Buy", "Sell"}, type : {"Market"}, size : {2}, price : {0}]
    \cup [side : {"Buy", "Sell"}, type : {"Limit"}, size : {2},
          price : {95, 110}]
    \cup {[side |-> "Sell", type |-> "Stop", size |-> 2, price |-> 95],
          [side |-> "Buy", type |-> "Stop", size |-> 2, price |-> 110]}

\* Broker::buy / Broker::sell: [b with the order appended, orderId]
BrokerSubmit(b, oid, side, data, size, price, type) ==
    [b |-> [b EXCEPT !.orders =
                Append(@, NewOrder(oid + 1, side, type, size, price, data))],
     orderId |-> oid + 1]

\* Strategy::BracketConfig values the strategy passes to buyBracket
BracketConfigs ==
    [size : {1}, price : {95}, stopPrice : {95}, limitPrice : {110},
     trailAmount : {0}, trailPercent : {0}, exectype : {"Limit"},
     stopExec : {"Stop"}, limitExec : {"Limit"}, valid : {0, 2}]
    \cup [size : {1}, price : {0}, stopPrice : {95}, limitPrice : {110},
          trailAmount : {0}, trailPercent : {0}, exectype : {"Market"},
          stopExec : {"Stop"}, limitExec : {"Limit"}, valid : {0}]
    \cup [size : {1}, price : {95}, stopPrice : {0}, limitPrice : {110},
          trailAmount : {0}, trailPercent : {0}, exectype : {"Limit"},
          stopExec : {"Stop"}, limitExec : {"Limit"}, valid : {0}]

\* Number of orders Strategy::buyBracket creates for a configuration
BracketCount(c) ==
    1 + (IF c.stopPrice > 0 \/ c.trailAmount > 0 \/ c.trailPercent > 0
         THEN 1 ELSE 0)
      + (IF c.limitPrice > 0 THEN 1 ELSE 0)

\* Strategy::buyBracket: the orders appended to the book, first ref = oid + 1
BracketOrders(oid, c) ==
    LET valid(o) == IF c.valid > 0 THEN [o EXCEPT !.validUntil = c.valid] ELSE o
        hasStop == c.stopPrice > 0 \/ c.trailAmount > 0 \/ c.trailPercent > 0
        hasLimit == c.limitPrice > 0
        mainRef == oid + 1
        stopRef == oid + 2
        limitRef == IF hasStop THEN oid + 3 ELSE oid + 2
        main0 == IF c.exectype = "Market"
                 THEN NewOrder(mainRef, "Buy", "Market", c.size, 0, DataName)
                 ELSE NewOrder(mainRef, "Buy", c.exectype, c.size, c.price,
                               DataName)
        main == valid([main0 EXCEPT
                         !.transmit = (c.stopPrice = 0 /\ c.limitPrice = 0)])
        stop0 == IF c.trailAmount > 0 \/ c.trailPercent > 0
                 THEN NewOrder(stopRef, "Sell", "StopTrail", c.size,
                               c.stopPrice, DataName)
                 ELSE NewOrder(stopRef, "Sell", c.stopExec, c.size,
                               c.stopPrice, DataName)
        stop == valid([stop0 EXCEPT !.parent = mainRef,
                                    !.transmit = (c.limitPrice = 0),
                                    !.oco = IF hasLimit THEN limitRef ELSE 0])
        limit0 == NewOrder(limitRef, "Sell", c.limitExec, c.size,
                           c.limitPrice, DataName)
        limit == valid([limit0 EXCEPT !.parent = mainRef, !.transmit = TRUE,
                                      !.oco = IF hasStop THEN stopRef ELSE 0])
    IN  <<main>> \o (IF hasStop THEN <<stop>> ELSE <<>>)
                 \o (IF hasLimit THEN <<limit>> ELSE <<>>)

\* --------------------------------------------------------------- cerebro
\* The per-bar phases with the strategy hook ahead of the broker
PhaseAfter_StrategyFirst(p) ==
    CASE p = "position" -> "strategy"
      [] p = "strategy" -> "broker"
      [] p = "broker" -> "analyzers"
      [] p = "analyzers" -> "observers"
      [] p = "observers" -> "loop"

\* Order of the per-bar phases in the main loop of Cerebro::runOnce
PhaseAfter(p) ==
    CASE p = "position" -> "broker"
      [] p = "broker" -> "strategy"
      [] p = "strategy" -> "analyzers"
      [] p = "analyzers" -> "observers"
      [] p = "observers" -> "loop"

\* Cerebro::runOnce: minPeriod, with 0 read as 1
MinPeriod == IF cfg.minPeriod = 0 THEN 1 ELSE cfg.minPeriod

\* The lifecycle choice with the warm-up one bar too long
HookFor_OffByOne(b, called) ==
    IF b < MinPeriod THEN "prenext"
    ELSE IF ~called THEN "nextstart"
    ELSE "next"

\* Cerebro::runOnce, "Call appropriate lifecycle method"
HookFor(b, called) ==
    IF b < MinPeriod - 1 THEN "prenext"
    ELSE IF ~called THEN "nextstart"
    ELSE "next"

\* Cerebro::runOnce: minimum data length over the feeds; 0 stands for the
\* outcome of the search when no feed has a bar
MinLen == cfg.bars

\* buy / sell / buyBracket calls made so far: each creates one order that
\* has no parent
Calls == Len(SelectSeq(orders, LAMBDA o : o.parent = 0))

\* Broker::cancel calls that hit an order so far
Cancels == Len(SelectSeq(notifications, LAMBDA n : n.status = "Canceled"))

NoStopCall == [called |-> FALSE, thread |-> "none"]

\* ------------------------------------------- analyzers and observers
\* TradeAnalyzer as constructed: the counters, and the total_trades entry of
\* analysis_ (not set before stop() has run)
NewAnalyzer ==
    [totalTrades |-> 0, wonTrades |-> 0, lostTrades |-> 0,
     analysis |-> [set |-> FALSE, total_trades |-> 0]]

\* TradeAnalyzer::start
AnalyzerStart(a) ==
    [a EXCEPT !.totalTrades = 0, !.wonTrades = 0, !.lostTrades = 0]

\* TradeAnalyzer::notifyTrade
NotifyTrade(a, trade) ==
    IF trade.isOpen THEN a
    ELSE [a EXCEPT !.totalTrades = @ + 1,
                   !.wonTrades = IF trade.pnlComm.n > 0 THEN @ + 1 ELSE @,
                   !.lostTrades = IF trade.pnlComm.n < 0 THEN @ + 1 ELSE @]

\* TradeAnalyzer::stop
AnalyzerStop(a) ==
    [a EXCEPT !.analysis = [set |-> TRUE, total_trades |-> a.totalTrades]]

\* Broker::tradeCb_ during a run of Cerebro: nothing in Cerebro calls
\* Broker::setTradeCallback, so the std::function is empty
TradeCbSet == FALSE

\* Broker::executeOrder, "if (tradeCb_) tradeCb_(trade)", for the closed
\* trades after the first k of the list; a callback, when there is one, hands
\* the trade to the analyzer
RECURSIVE TradeCallbacks(_, _, _)
TradeCallbacks(a, ts, k) ==
    IF k >= Len(ts) THEN a
    ELSE TradeCallbacks(IF TradeCbSet /\ ~ts[k + 1].isOpen
                        THEN NotifyTrade(a, ts[k + 1]) ELSE a, ts, k + 1)

\* Broker::getValue with the feed cursor on a loaded bar
GetValue(c, p, cursor) ==
    IF p.size # 0 THEN c + p.size * LoadedBar(cursor).close ELSE c

\* CashObserver(), ValueObserver(), DrawDownObserver(): the lines added by
\* the constructor, maxValue_, and whether setupObservers added the observer
NewObserver(kind, auto) ==
    [kind |-> kind, auto |-> auto, maxValue |-> 0,
     lines |-> IF kind = "DrawDown"
               THEN <<NewBuffer("unbounded", 0), NewBuffer("unbounded", 0)>>
               ELSE <<NewBuffer("unbounded", 0)>>]

\* Cerebro::setupObservers
SetupObservers(obs) ==
    IF cfg.stdstats
    THEN obs \o <<NewObserver("Cash", TRUE), NewObserver("Value", TRUE)>>
    ELSE obs

\* Observer::start, DrawDownObserver::start
ObserverStart(o, v) ==
    IF o.kind = "DrawDown" THEN [o EXCEPT !.maxValue = v] ELSE o

\* std::max on exact fractions
RMax(a, b) == IF a.n * b.d < b.n * a.d THEN b ELSE a

\* DrawDownObserver::next
DrawDownNext(o, currentValue) ==
    LET maxValue == IF o.maxValue < currentValue THEN currentValue
                    ELSE o.maxValue
        dd == IF maxValue > 0
              THEN Rat((maxValue - currentValue) * 100, maxValue)
              ELSE RInt(0)
        prevMaxDD == IF StorageLength(o.lines[2]) > 0
                     THEN StorageAt(o.lines[2], 0).value
                     ELSE RInt(0)
        maxDD == RMax(prevMaxDD, dd)
    IN  [o EXCEPT !.maxValue = maxValue,
                  !.lines = <<StoragePush(o.lines[1], dd),
                              StoragePush(o.lines[2], maxDD)>>]

\* CashObserver::next, ValueObserver::next, DrawDownObserver::next
ObserverNext(o, c, v) ==
    CASE o.kind = "Cash" -> [o EXCEPT !.lines = <<StoragePush(o.lines[1], c)>>]
      [] o.kind = "Value" -> [o EXCEPT !.lines = <<StoragePush(o.lines[1], v)>>]
      [] o.kind = "DrawDown" -> DrawDownNext(o, v)

\* No runOnce call is active
NoResult == [strategy |-> 0, startCash |-> 0, startSize |-> 0]

\* RunResult that runOnce returns when no feed has a bar
EarlyResult(startCash) ==
    [startCash |-> startCash, endCash |-> startCash, endValue |-> startCash,
     totalBars |-> 0, trades |-> <<>>, total_trades |-> 0, analyzed |-> FALSE,
     startSize |-> 0]

\* Cerebro as the caller set it up before the first run(): a TradeAnalyzer
\* and a DrawDownObserver were added
RunIdle ==
    /\ analyzer = NewAnalyzer
    /\ observers = <<NewObserver("DrawDown", FALSE)>>
    /\ result = NoResult
    /\ results = <<>>
    /\ runs = 0
    /\ cancelCalls = {}

\* Cerebro::run, the loop over strategyInstances_ after runOnce returned for
\* strategy k: the next strategy is run unless the stop flag is seen
AfterRunOnce(k, seen) ==
    IF ~seen /\ k < cfg.strategies THEN "nextstrategy" ELSE "done"


Init ==
    /\ cfg \in Configs
    /\ pc = "idle"
    /\ bar = 0
    /\ feed = DataReset
    /\ stopRequested = FALSE
    /\ calledNextStart = FALSE
    /\ stopCall = NoStopCall
    /\ cash = cfg.cash
    /\ pos = [size |-> 0, price |-> RInt(0)]
    /\ orders = <<>>
    /\ orderId = 0
    /\ trades = <<>>
    /\ notifications = <<>>
    /\ hooks = <<>>
    /\ phases = <<>>
    /\ born = <<>>
    /\ fills = <<>>
    /\ pool = NoPool
    /\ owner = NoOwner
    /\ opt = NoOpt
    /\ LibInit
    /\ RunIdle

\* Cerebro::run up to "Reset stop flag": the local vector results is empty,
\* and it is returned at once when datas_ is empty
EnterRun ==
    /\ runs' = runs + 1
    /\ results' = <<>>
    /\ pc' = IF cfg.feeds = 0 THEN "done" ELSE "entered"
    /\ UNCHANGED <<cfg, optVars, libVars, analyzer, observers, result, bar,
                   feed, stopRequested, stopCall, calledNextStart, hooks,
                   phases, cancelCalls>>
    /\ UNCHANGED brokerVars

\* Cerebro::run is entered for the first time
RunEnter ==
    /\ pc = "idle"
    /\ EnterRun

\* Cerebro::runOnce up to the main loop, for the k-th strategy instance, with
\* the broker's cash c, value v and position p, the observers obs, and seen
\* what the test of the stop flag in run() yields after an immediate return:
\* the start cash is recorded (and, as history, the size of the position);
\* when no feed has a bar the result is returned at once; else the
\* analyzers, the observers and the strategy are started
RunOnceBegin(k, c, v, p, obs, seen) ==
    /\ result' = [strategy |-> k, startCash |-> c, startSize |-> p.size]
    /\ calledNextStart' = FALSE
    /\ bar' = 0
    /\ IF MinLen = 0
       THEN /\ results' = Append(results, EarlyResult(c))
            /\ pc' = AfterRunOnce(k, seen)
            /\ observers' = obs
            /\ UNCHANGED <<hooks, analyzer>>
       ELSE /\ analyzer' = AnalyzerStart(analyzer)
            /\ observers' = [i \in DOMAIN obs |-> ObserverStart(obs[i], v)]
            /\ hooks' = Append(hooks, [hook |-> "start", bar |-> 0])
            /\ pc' = "loop"
            /\ UNCHANGED results

\* Cerebro::run from "Reset stop flag" up to the main loop of runOnce: the
\* stop flag is cleared, the broker reset (Broker::reset), strategy->start()
\* called
RunSetup ==
    /\ pc = "entered"
    /\ stopRequested' = FALSE
    /\ cash' = cfg.cash
    /\ pos' = [size |-> 0, price |-> RInt(0)]
    /\ orders' = <<>>
    /\ orderId' = 0
    /\ trades' = <<>>
    /\ born' = <<>>
    /\ RunOnceBegin(1, cfg.cash, cfg.cash, [size |-> 0, price |-> RInt(0)],
                    SetupObservers(observers), FALSE)
    /\ UNCHANGED <<cfg, optVars, libVars, runs, cancelCalls, feed, stopCall,
                   notifications, phases, fills>>

\* Threads that call Cerebro::stop at this point of the run: the hook of the
\* strategy runs on the thread of run(), any other caller does not
StopThreads == IF pc = "inhook" THEN {"run", "other"} ELSE {"other"}

\* Cerebro::stop, called once after run() has been entered
StopCall ==
    /\ pc \notin {"idle", "done"}
    /\ ~stopCall.called
    /\ \E t \in StopThreads :
          stopCall' = [called |-> TRUE, thread |-> t]
    /\ stopRequested' = TRUE
    /\ UNCHANGED <<cfg, optVars, libVars, runVars, pc, bar, feed, calledNextStart, hooks, phases>>
    /\ UNCHANGED brokerVars

\* Values the loop's read of stopRequested_ can yield: the flag is a plain
\* bool, so a read that races with the write of another thread may miss it
StopSeen ==
    IF stopCall.called /\ stopCall.thread = "other"
    THEN {stopRequested, FALSE}
    ELSE {stopRequested}

\* Head of the main loop: loop test, stop test, data positioning
LoopHead ==
    /\ pc = "loop"
    /\ \E seen \in StopSeen :
          IF bar < MinLen /\ ~seen
          THEN /\ feed' = PositionData(bar)
               /\ phases' = <<>>
               /\ pc' = PhaseAfter("position")
          ELSE /\ pc' = "stop"
               /\ UNCHANGED <<feed, phases>>
    /\ UNCHANGED <<cfg, optVars, libVars, runVars, bar, stopRequested, stopCall, calledNextStart, hooks>>
    /\ UNCHANGED brokerVars

\* broker_->next(); brokerNotify()
BrokerNext ==
    /\ pc = "broker"
    /\ LET nb == BrokerNextFrom(BrokerState, 1, [bar |-> bar, cursor |-> feed.pos])
       IN  /\ cash' = nb.cash
           /\ pos' = nb.pos
           /\ orders' = nb.orders
           /\ trades' = nb.trades
           /\ notifications' = nb.notifications
           /\ fills' = nb.fills
           /\ analyzer' = TradeCallbacks(analyzer, nb.trades, Len(trades))
    /\ phases' = Append(phases, "broker")
    /\ pc' = PhaseAfter("broker")
    /\ UNCHANGED <<cfg, optVars, libVars, observers, result, results, runs,
                   cancelCalls, bar, feed, stopRequested, stopCall,
                   calledNextStart, hooks, orderId, born>>

\* The strategy hook of the bar is entered
StrategyHook ==
    /\ pc = "strategy"
    /\ hooks' = Append(hooks, [hook |-> HookFor(bar, calledNextStart),
                               bar |-> bar])
    /\ calledNextStart' = (calledNextStart \/ bar >= MinPeriod - 1)
    /\ phases' = Append(phases, "strategy")
    /\ pc' = "inhook"
    /\ UNCHANGED <<cfg, optVars, libVars, runVars, bar, feed, stopRequested, stopCall>>
    /\ UNCHANGED brokerVars

\* Strategy::buy / Strategy::sell called by the hook
StrategyOrder ==
    /\ pc = "inhook"
    /\ Calls + Cancels < MaxCalls
    /\ \E q \in OrderRequests, d \in cfg.datas :
          /\ q.type \in cfg.types
          /\ LET r == BrokerSubmit(BrokerState, orderId, q.side, d,
                                   q.size, q.price, q.type)
             IN  /\ orders' = r.b.orders
                 /\ orderId' = r.orderId
                 /\ born' = Append(born, bar)
    /\ UNCHANGED cerebroVars
    /\ UNCHANGED <<cfg, optVars, libVars, runVars, cash, pos, trades, notifications, fills>>

\* Strategy::buyBracket called by the hook
BuyBracket ==
    /\ pc = "inhook"
    /\ cfg.brackets
    /\ Calls + Cancels < MaxCalls
    /\ \E c \in BracketConfigs :
          /\ orders' = orders \o BracketOrders(orderId, c)
          /\ orderId' = orderId + BracketCount(c)
          /\ born' = born \o [k \in 1..BracketCount(c) |-> bar]
    /\ UNCHANGED cerebroVars
    /\ UNCHANGED <<cfg, optVars, libVars, runVars, cash, pos, trades, notifications, fills>>

\* Broker::cancel called by the hook with the ref of an order
CancelCall ==
    /\ pc = "inhook"
    /\ cfg.cancels
    /\ Calls + Cancels < MaxCalls
    /\ \E id \in 1..orderId :
          /\ IsAlive(orders[id])
          /\ LET nb == BrokerCancel(BrokerState, id)
             IN  /\ orders' = nb.orders
                 /\ notifications' = nb.notifications
    /\ UNCHANGED cerebroVars
    /\ UNCHANGED <<cfg, optVars, libVars, runVars, cash, pos, orderId, trades, born, fills>>

\* Strategy::cancel(order) called by the hook with an order that buy, sell or
\* buyBracket returned and that is alive: Broker::cancel is given order->id().
\* The call changes nothing but the history, so it adds no behaviour of the
\* engine and is left out of Next.
StrategyCancel ==
    /\ pc = "inhook"
    /\ cfg.cancels
    /\ Calls + Cancels + Cardinality(cancelCalls) < MaxCalls
    /\ \E i \in DOMAIN orders :
          /\ IsAlive(orders[i])
          /\ LET nb == BrokerCancel(BrokerState, orders[i].id)
             IN  /\ orders' = nb.orders
                 /\ notifications' = nb.notifications
          /\ cancelCalls' = cancelCalls \cup {[ref |-> orders[i].ref,
                                               run |-> runs]}
    /\ UNCHANGED cerebroVars
    /\ UNCHANGED <<cfg, optVars, libVars, analyzer, observers, result, results,
                   runs, cash, pos, orderId, trades, born, fills>>

\* The hook returns; notifyCashValue
HookReturn ==
    /\ pc = "inhook"
    /\ phases' = Append(phases, "strategy_done")
    /\ pc' = PhaseAfter("strategy")
    /\ UNCHANGED <<cfg, optVars, libVars, runVars, bar, feed, stopRequested, stopCall, calledNextStart, hooks>>
    /\ UNCHANGED brokerVars

\* analyzer->next() for every analyzer
AnalyzersNext ==
    /\ pc = "analyzers"
    /\ phases' = Append(phases, "analyzers")
    /\ pc' = PhaseAfter("analyzers")
    /\ UNCHANGED <<cfg, optVars, libVars, runVars, bar, feed, stopRequested, stopCall, calledNextStart, hooks>>
    /\ UNCHANGED brokerVars

\* observer->next() for every observer; ++bar
ObserversNext ==
    /\ pc = "observers"
    /\ phases' = Append(phases, "observers")
    /\ observers' = [i \in DOMAIN observers |->
                        ObserverNext(observers[i], cash,
                                     GetValue(cash, pos, feed.pos))]
    /\ bar' = bar + 1
    /\ pc' = PhaseAfter("observers")
    /\ UNCHANGED <<cfg, optVars, libVars, analyzer, result, results, runs,
                   cancelCalls, feed, stopRequested, stopCall, calledNextStart,
                   hooks>>
    /\ UNCHANGED brokerVars

\* RunResult that runOnce compiles after the loop, a the stopped analyzer
\* (startSize is history: the position when runOnce was entered)
CompiledResult(a) ==
    [startCash |-> result.startCash, endCash |-> cash,
     endValue |-> GetValue(cash, pos, feed.pos), totalBars |-> MinLen,
     trades |-> trades, total_trades |-> a.analysis.total_trades,
     analyzed |-> TRUE, startSize |-> result.startSize]

\* After the loop: strategy->stop(), analyzers and observers stopped, the
\* result compiled; back in run(), it is appended to results and the loop
\* over the strategies goes on or ends
RunExit ==
    /\ pc = "stop"
    /\ hooks' = Append(hooks, [hook |-> "stop", bar |-> bar])
    /\ analyzer' = AnalyzerStop(analyzer)
    /\ results' = Append(results, CompiledResult(AnalyzerStop(analyzer)))
    /\ \E seen \in StopSeen : pc' = AfterRunOnce(result.strategy, seen)
    /\ UNCHANGED <<cfg, optVars, libVars, observers, result, runs,
                   cancelCalls, bar, feed, stopRequested, stopCall,
                   calledNextStart, phases>>
    /\ UNCHANGED brokerVars

\* Cerebro::run, the next iteration of the loop over strategyInstances_:
\* runOnce is entered for the next strategy with the broker as it is
NextStrategy ==
    /\ pc = "nextstrategy"
    /\ \E seen \in StopSeen :
          RunOnceBegin(result.strategy + 1, cash,
                       GetValue(cash, pos, feed.pos), pos, observers, seen)
    /\ UNCHANGED <<cfg, optVars, libVars, runs, cancelCalls, feed,
                   stopRequested, stopCall, phases>>
    /\ UNCHANGED brokerVars

\* The caller calls run() again after it returned
RunAgain ==
    /\ pc = "done"
    /\ runs < cfg.runs
    /\ EnterRun

Next ==
    \/ RunEnter
    \/ RunSetup
    \/ StopCall
    \/ LoopHead
    \/ BrokerNext
    \/ StrategyHook
    \/ StrategyOrder
    \/ BuyBracket
    \/ CancelCall
    \/ HookReturn
    \/ AnalyzersNext
    \/ ObserversNext
    \/ RunExit

Spec == Init /\ [][Next]_vars

\* ------------------------------------------------- runs of one Cerebro
\* Cerebro set up in other ways and run more than once: no feed added, a
\* feed without bars, two strategies added, run() called again
RunConfigs ==
    { [DefaultCfg EXCEPT !.feeds = 0, !.bars = 0, !.runs = MaxRuns],
      [DefaultCfg EXCEPT !.bars = 0, !.strategies = 2, !.runs = MaxRuns],
      [DefaultCfg EXCEPT !.strategies = 2, !.types = {"Market"}],
      [DefaultCfg EXCEPT !.brackets = TRUE, !.cancels = TRUE],
      [DefaultCfg EXCEPT !.runs = MaxRuns],
      [DefaultCfg EXCEPT !.stdstats = FALSE, !.runs = MaxRuns] }

InitRuns ==
    /\ cfg \in RunConfigs
    /\ pc = "idle"
    /\ bar = 0
    /\ feed = DataReset
    /\ stopRequested = FALSE
    /\ calledNextStart = FALSE
    /\ stopCall = NoStopCall
    /\ cash = cfg.cash
    /\ pos = [size |-> 0, price |-> RInt(0)]
    /\ orders = <<>>
    /\ orderId = 0
    /\ trades = <<>>
    /\ notifications = <<>>
    /\ hooks = <<>>
    /\ phases = <<>>
    /\ born = <<>>
    /\ fills = <<>>
    /\ pool = NoPool
    /\ owner = NoOwner
    /\ opt = NoOpt
    /\ LibInit
    /\ RunIdle

NextRuns ==
    \/ Next
    \/ NextStrategy
    \/ RunAgain
    \/ StrategyCancel

SpecRuns == InitRuns /\ [][NextRuns]_vars

\* ------------------------------------------------------ SignalStrategy
\* Strategy::closePosition() on the first feed: [b, orderId]
ClosePosition(b, oid) ==
    IF b.pos.size = 0 THEN [b |-> b, orderId |-> oid]
    ELSE IF b.pos.size > 0
    THEN BrokerSubmit(b, oid, "Sell", DataName, Abs(b.pos.size), 0, "Market")
    ELSE BrokerSubmit(b, oid, "Buy", DataName, Abs(b.pos.size), 0, "Market")

\* SignalStrategy::processSignals, canGoLong
CanGoLong(mode) == mode # "ShortOnly"

\* Short entries allowed under every policy
CanGoShort_Always(mode) == TRUE

\* SignalStrategy::processSignals, canGoShort
CanGoShort(mode) == mode # "LongOnly"

\* What SignalGroup::hasLongEntry, hasShortEntry, hasLongExit and
\* hasShortExit return on a bar
SignalSets ==
    [longEntry : BOOLEAN, shortEntry : BOOLEAN, longExit : BOOLEAN,
     shortExit : BOOLEAN]

\* SignalStrategy::processSignals with the signals sig: [b, orderId]
ProcessSignals(b, oid, sig) ==
    LET none == [b |-> b, orderId |-> oid]
        exit == \/ (b.pos.size > 0 /\ sig.longExit)
                \/ (b.pos.size < 0 /\ sig.shortExit)
        s1 == IF exit THEN ClosePosition(b, oid) ELSE none
        p == IF exit THEN 0 ELSE b.pos.size
        long0 == CanGoLong(cfg.accumMode) /\ sig.longEntry
        short0 == CanGoShort(cfg.accumMode) /\ sig.shortEntry
        both == long0 /\ short0
        longSignal == long0 /\ ~(both /\ p > 0)
        shortSignal == /\ short0
                       /\ ~(both /\ p < 0)
                       /\ ~(both /\ p = 0 /\ ~cfg.useAllSignals)
        s2 == IF longSignal /\ p < 0 /\ cfg.exitOnOpposite
              THEN ClosePosition(s1.b, s1.orderId) ELSE s1
        s3 == IF longSignal /\ p <= 0 /\ cfg.stake > 0
              THEN BrokerSubmit(s2.b, s2.orderId, "Buy", DataName, cfg.stake,
                                0, "Market")
              ELSE s2
        s4 == IF shortSignal /\ p > 0 /\ cfg.exitOnOpposite
              THEN ClosePosition(s3.b, s3.orderId) ELSE s3
        s5 == IF shortSignal /\ p >= 0 /\ cfg.stake > 0
              THEN BrokerSubmit(s4.b, s4.orderId, "Sell", DataName, cfg.stake,
                                0, "Market")
              ELSE s4
    IN  s5

\* The hook of a SignalStrategy runs and returns: prenext does nothing;
\* nextstart and next call processSignals
SignalHook ==
    /\ pc = "inhook"
    /\ \E sig \in SignalSets :
          LET r == IF hooks[Len(hooks)].hook = "prenext"
                   THEN [b |-> BrokerState, orderId |-> orderId]
                   ELSE ProcessSignals(BrokerState, orderId, sig)
          IN  /\ orders' = r.b.orders
              /\ orderId' = r.orderId
              /\ born' = born \o [k \in 1..(r.orderId - orderId) |-> bar]
    /\ phases' = Append(phases, "strategy_done")
    /\ pc' = PhaseAfter("strategy")
    /\ UNCHANGED <<cfg, optVars, libVars, runVars, bar, feed, stopRequested,
                   stopCall, calledNextStart, hooks, cash, pos, trades,
                   notifications, fills>>

\* Cerebro set up with one SignalStrategy: the three policies, with and
\* without a warm-up bar, a sizer and a volume filler
SignalConfigs ==
    { [DefaultCfg EXCEPT !.accumMode = m, !.exitOnOpposite = x,
                         !.useAllSignals = u, !.stake = k,
                         !.minPeriod = k, !.filler = f, !.fillerMax = 1] :
        m \in {"LongShort", "LongOnly", "ShortOnly"}, x \in BOOLEAN,
        u \in BOOLEAN, k \in {1, 2}, f \in {"Default", "Fixed"} }

InitSignalStrategy ==
    /\ cfg \in SignalConfigs
    /\ pc = "idle"
    /\ bar = 0
    /\ feed = DataReset
    /\ stopRequested = FALSE
    /\ calledNextStart = FALSE
    /\ stopCall = NoStopCall
    /\ cash = cfg.cash
    /\ pos = [size |-> 0, price |-> RInt(0)]
    /\ orders = <<>>
    /\ orderId = 0
    /\ trades = <<>>
    /\ notifications = <<>>
    /\ hooks = <<>>
    /\ phases = <<>>
    /\ born = <<>>
    /\ fills = <<>>
    /\ pool = NoPool
    /\ owner = NoOwner
    /\ opt = NoOpt
    /\ LibInit
    /\ RunIdle

NextSignalStrategy ==
    \/ RunEnter
    \/ RunSetup
    \/ StopCall
    \/ LoopHead
    \/ BrokerNext
    \/ StrategyHook
    \/ SignalHook
    \/ AnalyzersNext
    \/ ObserversNext
    \/ RunExit

SpecSignalStrategy == InitSignalStrategy /\ [][NextSignalStrategy]_vars


\* ------------------------------------------------- free-standing orders
\* The Order class used on its own, as the unit tests use it: one order,
\* kept in orders[1], and calls of its public status modifiers.
InitOrder ==
    /\ cfg = DefaultCfg
    /\ pc = "idle"
    /\ bar = 0
    /\ feed = DataReset
    /\ stopRequested = FALSE
    /\ stopCall = NoStopCall
    /\ calledNextStart = FALSE
    /\ cash = StartCash
    /\ pos = [size |-> 0, price |-> RInt(0)]
    /\ \E side \in {"Buy", "Sell"}, type \in {"Market", "Limit"},
          v \in {0, 2} :
          orders = <<[CtorOrder(1, side, type, 2) EXCEPT !.validUntil = v]>>
    /\ orderId = 0
    /\ trades = <<>>
    /\ notifications = <<>>
    /\ hooks = <<>>
    /\ phases = <<>>
    /\ born = <<>>
    /\ fills = <<>>
    /\ pool = NoPool
    /\ owner = NoOwner
    /\ opt = NoOpt
    /\ LibInit
    /\ RunIdle

OrderCall(o) ==
    /\ orders' = [orders EXCEPT ![1] = o]
    /\ UNCHANGED <<cfg, optVars, libVars, runVars, cash, pos, orderId, trades, notifications, born, fills>>
    /\ UNCHANGED cerebroVars

OrderSubmitCall == OrderCall(OrderSetStatus(orders[1], "Submitted"))
OrderAcceptCall == OrderCall(OrderSetStatus(orders[1], "Accepted"))
OrderCancelCall == OrderCall(OrderSetStatus(orders[1], "Canceled"))
OrderMarginCall == OrderCall(OrderSetStatus(orders[1], "Margin"))
OrderCompleteCall == OrderCall(OrderSetStatus(orders[1], "Completed"))
OrderPartialCall == OrderCall(OrderSetStatus(orders[1], "Partial"))
OrderRejectCall == OrderCall(OrderReject(orders[1]))
OrderExpireCall == \E dt \in {1, 3} : OrderCall(OrderExpire(orders[1], dt))
OrderExecuteCall ==
    \E dt \in {1, 3}, sz \in {1, 2}, pr \in {100} :
        /\ orders[1].executedSize + sz <= MaxExecuted
        /\ OrderCall(OrderExecute(orders[1], dt, sz, pr))

NextOrder ==
    \/ OrderSubmitCall
    \/ OrderAcceptCall
    \/ OrderCancelCall
    \/ OrderMarginCall
    \/ OrderCompleteCall
    \/ OrderPartialCall
    \/ OrderRejectCall
    \/ OrderExpireCall
    \/ OrderExecuteCall

SpecOrder == InitOrder /\ [][NextOrder]_vars



\* ------------------------------------------------ thread pool: workers
\* workerLoop, the block under the mutex: wait for the predicate, leave when
\* stopped and drained, else take the task at the front of the queue.  A
\* worker woken while the predicate is false evaluates it and blocks again.
WorkerWait(w) ==
    /\ w \in DOMAIN pool.workers
    /\ pool.workers[w].pc = "wait"
    /\ pool' =
          IF ~WorkerPredicate(pool)
          THEN [pool EXCEPT !.workers[w].pc = "blocked"]
          ELSE IF pool.stop /\ pool.tasks = <<>>
          THEN [pool EXCEPT !.workers[w].pc = "exited"]
          ELSE [pool EXCEPT !.tasks = Tail(@),
                            !.activeJobs = @ + 1,
                            !.workers[w] = [pc |-> "task",
                                            task |-> Head(pool.tasks)]]
    /\ UNCHANGED <<owner, opt>>
    /\ UNCHANGED engineVars
    /\ UNCHANGED libVars

\* workerLoop, task(): the packaged_task runs the callable and stores its
\* value, or the exception it threw, in the shared state
WorkerRunTask(w) ==
    /\ w \in DOMAIN pool.workers
    /\ pool.workers[w].pc = "task"
    /\ owner.prog = "client"
    /\ LET t == pool.workers[w].task
       IN  owner' = [owner EXCEPT
                       !.futures[t].state = TaskOutcome(t),
                       !.futures[t].value =
                           IF TaskOutcome(t) = "value" THEN TaskResult(t)
                           ELSE 0,
                       !.futures[t].runs = @ + 1]
    /\ pool' = [pool EXCEPT !.workers[w].pc = "finish"]
    /\ UNCHANGED opt
    /\ UNCHANGED engineVars
    /\ UNCHANGED libVars

\* workerLoop, the second block under the mutex: --activeJobs_
WorkerFinish(w) ==
    /\ w \in DOMAIN pool.workers
    /\ pool.workers[w].pc = "finish"
    /\ pool' = [pool EXCEPT !.activeJobs = @ - 1,
                            !.workers[w].pc = "notify"]
    /\ UNCHANGED <<owner, opt>>
    /\ UNCHANGED engineVars
    /\ UNCHANGED libVars

\* workerLoop: doneCondition_.notify_all(), then the loop starts over
WorkerNotifyDone(w) ==
    /\ w \in DOMAIN pool.workers
    /\ pool.workers[w].pc = "notify"
    /\ pool' = [pool EXCEPT !.workers[w] = [pc |-> "wait", task |-> 0]]
    /\ owner' = IF owner.pc = "waitall_blocked"
               THEN [owner EXCEPT !.pc = "waitall"]
               ELSE owner
    /\ UNCHANGED opt
    /\ UNCHANGED engineVars
    /\ UNCHANGED libVars

\* ------------------------------------------- thread pool: owning thread
\* ThreadPool::submit up to the end of the block under the mutex
ClientSubmit ==
    /\ owner.prog = "client"
    /\ owner.pc = "ready"
    /\ ~pool.stop
    /\ Len(owner.futures) < MaxTasks
    /\ pool' = SubmitTask(pool, Len(owner.futures) + 1)
    /\ owner' = [owner EXCEPT !.futures = Append(@, NewFuture),
                            !.pc = "notify"]
    /\ UNCHANGED opt
    /\ UNCHANGED engineVars
    /\ UNCHANGED libVars

\* ThreadPool::submit: condition_.notify_one(); return result
ClientNotify ==
    /\ owner.prog = "client"
    /\ owner.pc = "notify"
    /\ pool' \in NotifyOne(pool)
    /\ owner' = [owner EXCEPT !.pc = "ready"]
    /\ UNCHANGED opt
    /\ UNCHANGED engineVars
    /\ UNCHANGED libVars

\* std::future::get of the next future, in the order of submission, returns
\* (it blocks until the shared state is ready)
ClientGet ==
    /\ owner.prog = "client"
    /\ owner.pc = "ready"
    /\ \E t \in DOMAIN owner.futures :
          /\ owner.futures[t].state # "pending"
          /\ ~owner.futures[t].got
          /\ \A u \in 1..(t - 1) : owner.futures[u].got
          /\ owner' = [owner EXCEPT !.futures[t].got = TRUE]
    /\ UNCHANGED <<pool, opt>>
    /\ UNCHANGED engineVars
    /\ UNCHANGED libVars

\* ThreadPool::waitAll is called: the mutex is taken
WaitAllCall ==
    /\ owner.prog = "client"
    /\ owner.pc = "ready"
    /\ owner' = [owner EXCEPT !.pc = "waitall", !.blocked = FALSE]
    /\ UNCHANGED <<pool, opt>>
    /\ UNCHANGED engineVars
    /\ UNCHANGED libVars

\* ThreadPool::waitAll: doneCondition_.wait evaluates its predicate under the
\* mutex, and returns or blocks
WaitAllCheck ==
    /\ owner.pc = "waitall"
    /\ owner' = IF QuiescencePredicate(pool)
               THEN [owner EXCEPT !.pc = "ready", !.waited = TRUE]
               ELSE [owner EXCEPT !.pc = "waitall_blocked", !.blocked = TRUE]
    /\ UNCHANGED <<pool, opt>>
    /\ UNCHANGED engineVars
    /\ UNCHANGED libVars

\* ThreadPool::~ThreadPool: stop_ = true under the mutex
Destroy ==
    /\ owner.prog = "client"
    /\ owner.pc = "ready"
    /\ pool' = [pool EXCEPT !.stop = TRUE]
    /\ owner' = [owner EXCEPT !.pc = "destroy_notify", !.after = "destroyed"]
    /\ UNCHANGED opt
    /\ UNCHANGED engineVars
    /\ UNCHANGED libVars

\* ThreadPool::~ThreadPool: condition_.notify_all()
DestroyNotify ==
    /\ owner.pc = "destroy_notify"
    /\ pool' = NotifyAll(pool)
    /\ owner' = [owner EXCEPT !.pc = "joining"]
    /\ UNCHANGED opt
    /\ UNCHANGED engineVars
    /\ UNCHANGED libVars

\* ThreadPool::~ThreadPool: every worker has been joined
DestroyJoin ==
    /\ owner.pc = "joining"
    /\ \A w \in DOMAIN pool.workers : pool.workers[w].pc = "exited"
    /\ owner' = [owner EXCEPT !.pc = owner.after]
    /\ UNCHANGED <<pool, opt>>
    /\ UNCHANGED engineVars
    /\ UNCHANGED libVars

WorkerStep(w) ==
    \/ WorkerWait(w)
    \/ WorkerRunTask(w)
    \/ WorkerFinish(w)
    \/ WorkerNotifyDone(w)

\* The ThreadPool used on its own, as the unit tests use it: a pool of 1 to
\* NumWorkers threads, and a thread that submits tasks, gets their futures,
\* calls waitAll and finally destroys the pool.
InitPool ==
    /\ cfg = DefaultCfg
    /\ pc = "idle"
    /\ bar = 0
    /\ feed = DataReset
    /\ stopRequested = FALSE
    /\ stopCall = NoStopCall
    /\ calledNextStart = FALSE
    /\ cash = StartCash
    /\ pos = [size |-> 0, price |-> RInt(0)]
    /\ orders = <<>>
    /\ orderId = 0
    /\ trades = <<>>
    /\ notifications = <<>>
    /\ hooks = <<>>
    /\ phases = <<>>
    /\ born = <<>>
    /\ fills = <<>>
    /\ \E n \in 1..NumWorkers : pool = NewPool(n)
    /\ owner = [NoOwner EXCEPT !.prog = "client", !.pc = "ready"]
    /\ opt = NoOpt
    /\ LibInit
    /\ RunIdle

NextPool ==
    \/ ClientSubmit
    \/ ClientNotify
    \/ ClientGet
    \/ WaitAllCall
    \/ WaitAllCheck
    \/ Destroy
    \/ DestroyNotify
    \/ DestroyJoin
    \/ \E w \in 1..NumWorkers : WorkerWait(w)
    \/ \E w \in 1..NumWorkers : WorkerRunTask(w)
    \/ \E w \in 1..NumWorkers : WorkerFinish(w)
    \/ \E w \in 1..NumWorkers : WorkerNotifyDone(w)

SpecPool == InitPool /\ [][NextPool]_vars

\* Every thread that can take a step eventually takes one: worker threads
\* run, and submit reaches its notify_one
SpecPoolFair ==
    /\ InitPool
    /\ [][NextPool]_vars
    /\ \A w \in 1..NumWorkers : WF_vars(WorkerStep(w))
    /\ WF_vars(ClientNotify)

\* As SpecPoolFair, and the thread inside the destructor runs too
SpecPoolDestroy ==
    /\ InitPool
    /\ [][NextPool]_vars
    /\ \A w \in 1..NumWorkers : WF_vars(WorkerStep(w))
    /\ WF_vars(ClientNotify)
    /\ WF_vars(DestroyNotify)
    /\ WF_vars(DestroyJoin)


\* ------------------------------------------------ optimization: workers
\* The task of runOptimize starts: a local Cerebro is made and the feeds of
\* the optimizing Cerebro are added to it (addData sets the feed's name)
OptRunBegin(w) ==
    /\ w \in DOMAIN pool.workers
    /\ pool.workers[w].pc = "task"
    /\ owner.prog = "optimize"
    /\ opt.runs[w].pc = "none"
    /\ opt' = [opt EXCEPT !.shared.name = DataName,
                          !.runs[w] = [pc |-> "run", bar |-> 0]]
    /\ UNCHANGED <<pool, owner>>
    /\ UNCHANGED engineVars
    /\ UNCHANGED libVars

\* Loop bars a run goes through: the strategy may throw in its first hook
LastBar(params) ==
    IF RunThrows(opt.strategy, params) THEN 0 ELSE MinLen - 1

\* Cursors the run can leave the feed with: every bar's positioning (reset()
\* and bar+1 next() calls) writes pos_ and currentIdx_ of the feed without
\* synchronisation, so while another run is using the feed the last write
\* is this run's positioning of its last bar or a reset() of the other run
PositionOutcomes(w, b) ==
    IF \E v \in DOMAIN opt.runs : v # w /\ opt.runs[v].pc # "none"
    THEN {PositionData(b), DataReset}
    ELSE {PositionData(b)}

\* localCerebro.run(): the main loop of runOnce positions the feed for every
\* bar and runs broker, strategy hook (which may throw), analyzers and
\* observers on it
OptRun(w) ==
    /\ w \in DOMAIN pool.workers
    /\ owner.prog = "optimize"
    /\ opt.runs[w].pc = "run"
    /\ LET params == opt.paramSets[pool.workers[w].task]
           last == LastBar(params)
       IN  \E f \in PositionOutcomes(w, last) :
              opt' = [opt EXCEPT
                        !.shared.pos = f.pos,
                        !.shared.currentIdx = f.currentIdx,
                        !.runs[w] =
                           [pc |-> IF RunThrows(opt.strategy, params)
                                   THEN "threw" ELSE "end",
                            bar |-> last]]
    /\ UNCHANGED <<pool, owner>>
    /\ UNCHANGED engineVars
    /\ UNCHANGED libVars

\* OptResult of a task: the run's P&L, or the sentinel set by the handler of
\* std::exception
OptResultOf(t, failed) ==
    [params |-> opt.paramSets[t],
     pnl |-> IF failed THEN Sentinel ELSE 0,
     pnlPct |-> IF failed THEN Sentinel ELSE 0]

\* The task of runOptimize ends: the run returned, or threw an exception that
\* the handler of std::exception caught, or threw one that it did not catch
\* and that the packaged_task stores in the shared state
OptRunEnd(w) ==
    /\ w \in DOMAIN pool.workers
    /\ owner.prog = "optimize"
    /\ opt.runs[w].pc \in {"end", "threw"}
    /\ LET t == pool.workers[w].task
           threw == opt.runs[w].pc = "threw"
           caught == threw /\ opt.strategy = "throws_std"
       IN  owner' = [owner EXCEPT
                      !.futures[t].state =
                          IF threw /\ ~caught THEN "exception" ELSE "value",
                      !.futures[t].value = OptResultOf(t, caught),
                      !.futures[t].runs = @ + 1]
    /\ opt' = [opt EXCEPT !.runs[w] = NoRun]
    /\ pool' = [pool EXCEPT !.workers[w].pc = "finish"]
    /\ UNCHANGED engineVars
    /\ UNCHANGED libVars

\* ------------------------------------------- optimization: runOptimize
\* runOptimize up to the submission loop: the grid is expanded, the pool
\* constructed
OptGenerate ==
    /\ owner.prog = "optimize"
    /\ owner.pc = "opt_start"
    /\ LET paramSets == Generate(opt.grid)
       IN  /\ opt' = [opt EXCEPT
                        !.paramSets = paramSets,
                        !.runs = [w \in 1..opt.threads |-> NoRun]]
           /\ IF paramSets = <<>>
              THEN /\ owner' = [owner EXCEPT !.pc = "returned"]
                   /\ UNCHANGED pool
              ELSE /\ owner' = [owner EXCEPT !.pc = "opt_submit"]
                   /\ pool' = NewPool(opt.threads)
    /\ UNCHANGED engineVars
    /\ UNCHANGED libVars

\* pool.submit of the task of the next parameter set, up to the end of the
\* block under the mutex
OptSubmit ==
    /\ owner.prog = "optimize"
    /\ owner.pc = "opt_submit"
    /\ pool' = SubmitTask(pool, Len(owner.futures) + 1)
    /\ owner' = [owner EXCEPT !.futures = Append(@, NewFuture),
                            !.pc = "opt_notify"]
    /\ UNCHANGED opt
    /\ UNCHANGED engineVars
    /\ UNCHANGED libVars

\* pool.submit: condition_.notify_one(); the submission loop goes on or ends
OptNotify ==
    /\ owner.prog = "optimize"
    /\ owner.pc = "opt_notify"
    /\ pool' \in NotifyOne(pool)
    /\ owner' = [owner EXCEPT !.pc = IF Len(owner.futures) < Len(opt.paramSets)
                                   THEN "opt_submit" ELSE "opt_collect"]
    /\ UNCHANGED opt
    /\ UNCHANGED engineVars
    /\ UNCHANGED libVars

\* "Collect results": future.get() of the next future returns the result,
\* which is appended, or rethrows the stored exception, which leaves
\* runOptimize (the pool is destroyed while the stack unwinds)
OptCollect ==
    /\ owner.prog = "optimize"
    /\ owner.pc = "opt_collect"
    /\ LET t == Len(opt.results) + 1
           f == owner.futures[t]
       IN  /\ f.state # "pending"
           /\ IF f.state = "value"
              THEN /\ opt' = [opt EXCEPT !.results = Append(@, f.value)]
                   /\ owner' = [owner EXCEPT
                                 !.futures[t].got = TRUE,
                                 !.pc = IF t < Len(opt.paramSets)
                                        THEN "opt_collect" ELSE "opt_sort"]
                   /\ UNCHANGED pool
              ELSE /\ owner' = [owner EXCEPT !.futures[t].got = TRUE,
                                           !.pc = "destroy_notify",
                                           !.after = "thrown"]
                   /\ pool' = [pool EXCEPT !.stop = TRUE]
                   /\ UNCHANGED opt
    /\ UNCHANGED engineVars
    /\ UNCHANGED libVars

\* Orders std::sort with std::greater<OptResult> can leave: any permutation
\* with P&L% descending
SortedResults(rs) ==
    LET n == Len(rs)
        perms == {f \in [1..n -> 1..n] : \A i, j \in 1..n : i # j => f[i] # f[j]}
    IN  {[i \in 1..n |-> rs[f[i]]] : f \in
            {g \in perms : \A i \in 1..(n - 1) :
                rs[g[i]].pnlPct >= rs[g[i + 1]].pnlPct}}

\* "Sort by PnL% descending" and return: the pool is destroyed
OptReturn ==
    /\ owner.prog = "optimize"
    /\ owner.pc = "opt_sort"
    /\ \E sorted \in SortedResults(opt.results) :
          opt' = [opt EXCEPT !.results = sorted]
    /\ owner' = [owner EXCEPT !.pc = "destroy_notify", !.after = "returned"]
    /\ pool' = [pool EXCEPT !.stop = TRUE]
    /\ UNCHANGED engineVars
    /\ UNCHANGED libVars

\* Cerebro::runOptimize over a grid, with maxcpus threads, for a strategy
InitOpt ==
    /\ cfg = DefaultCfg
    /\ pc = "idle"
    /\ bar = 0
    /\ feed = DataReset
    /\ stopRequested = FALSE
    /\ stopCall = NoStopCall
    /\ calledNextStart = FALSE
    /\ cash = StartCash
    /\ pos = [size |-> 0, price |-> RInt(0)]
    /\ orders = <<>>
    /\ orderId = 0
    /\ trades = <<>>
    /\ notifications = <<>>
    /\ hooks = <<>>
    /\ phases = <<>>
    /\ born = <<>>
    /\ fills = <<>>
    /\ pool = NoPool
    /\ owner = [NoOwner EXCEPT !.prog = "optimize", !.pc = "opt_start"]
    /\ \E g \in Grids, st \in Strategies, n \in 1..NumWorkers :
          opt = [NoOpt EXCEPT !.grid = g, !.strategy = st, !.threads = n]
    /\ LibInit
    /\ RunIdle

NextOpt ==
    \/ OptGenerate
    \/ OptSubmit
    \/ OptNotify
    \/ OptCollect
    \/ OptReturn
    \/ DestroyNotify
    \/ DestroyJoin
    \/ \E w \in 1..NumWorkers : WorkerWait(w)
    \/ \E w \in 1..NumWorkers : OptRunBegin(w)
    \/ \E w \in 1..NumWorkers : OptRun(w)
    \/ \E w \in 1..NumWorkers : OptRunEnd(w)
    \/ \E w \in 1..NumWorkers : WorkerFinish(w)
    \/ \E w \in 1..NumWorkers : WorkerNotifyDone(w)

SpecOpt == InitOpt /\ [][NextOpt]_vars

\* ------------------------------------------------------------- Position
\* Everything but the free-standing Position
EngineIdle ==
    /\ cfg = DefaultCfg
    /\ pc = "idle"
    /\ bar = 0
    /\ feed = DataReset
    /\ stopRequested = FALSE
    /\ stopCall = NoStopCall
    /\ calledNextStart = FALSE
    /\ cash = StartCash
    /\ pos = [size |-> 0, price |-> RInt(0)]
    /\ orders = <<>>
    /\ orderId = 0
    /\ trades = <<>>
    /\ notifications = <<>>
    /\ hooks = <<>>
    /\ phases = <<>>
    /\ born = <<>>
    /\ fills = <<>>
    /\ pool = NoPool
    /\ owner = NoOwner
    /\ opt = NoOpt
    /\ RunIdle

\* Sizes and prices passed to Position::update
UpdateSizes == {-3, -2, -1, 1, 2, 3}
UpdatePrices == {50, 55}

\* Position::update(deltaSize, execPrice)
PositionUpdate(p, deltaSize, execPrice) ==
    IF p.size = 0
    THEN [p EXCEPT !.price = RInt(execPrice), !.size = deltaSize]
    ELSE IF (p.size > 0 /\ deltaSize > 0) \/ (p.size < 0 /\ deltaSize < 0)
    THEN LET totalValue == RAdd(RMulInt(p.price, p.size),
                                RInt(deltaSize * execPrice))
         IN  [p EXCEPT !.size = p.size + deltaSize,
                       !.price = RDivInt(totalValue, p.size + deltaSize)]
    ELSE IF p.size + deltaSize = 0
    THEN [p EXCEPT !.size = 0, !.price = RInt(0)]
    ELSE [p EXCEPT !.size = p.size + deltaSize]

\* A call of Position::update
PositionUpdateCall ==
    /\ position.calls < MaxUpdates
    /\ \E d \in UpdateSizes, x \in UpdatePrices :
          position' = [PositionUpdate(position, d, x) EXCEPT
                         !.last = [update |-> TRUE, size |-> position.size,
                                   delta |-> d, price |-> x],
                         !.calls = @ + 1]
    /\ UNCHANGED <<buffer, series, timers, signal>>
    /\ UNCHANGED engineVars
    /\ UNCHANGED optVars

\* A call of Position::close
PositionCloseCall ==
    /\ position.calls < MaxUpdates
    /\ position' = [position EXCEPT !.size = 0, !.price = RInt(0),
                                    !.last = NoUpdate, !.calls = @ + 1]
    /\ UNCHANGED <<buffer, series, timers, signal>>
    /\ UNCHANGED engineVars
    /\ UNCHANGED optVars

InitPosition ==
    /\ EngineIdle
    /\ position = NoPosition
    /\ buffer = NoBuffer
    /\ series = NoSeries
    /\ timers = NoTimers
    /\ signal = NoSignal

NextPosition ==
    \/ PositionUpdateCall
    \/ PositionCloseCall

SpecPosition == InitPosition /\ [][NextPosition]_vars

\* ----------------------------------------------------------- LineBuffer
\* Values pushed to a line buffer
Values == {1, 2}

\* LineBuffer::push
PushCall ==
    /\ buffer.calls < MaxPush
    /\ \E v \in Values : buffer' = StoragePush(buffer, v)
    /\ UNCHANGED <<position, series, timers, signal>>
    /\ UNCHANGED engineVars
    /\ UNCHANGED optVars

\* LineBuffer::extend with a vector of two values
ExtendCall ==
    /\ buffer.calls + 2 <= MaxPush
    /\ \E v, w \in Values : buffer' = StoragePush(StoragePush(buffer, v), w)
    /\ UNCHANGED <<position, series, timers, signal>>
    /\ UNCHANGED engineVars
    /\ UNCHANGED optVars

\* LineBuffer::advance
AdvanceCall ==
    /\ buffer.pos < MaxPos
    /\ buffer' = BufferAdvance(buffer)
    /\ UNCHANGED <<position, series, timers, signal>>
    /\ UNCHANGED engineVars
    /\ UNCHANGED optVars

\* LineBuffer::rewind
RewindCall ==
    /\ buffer' = BufferRewind(buffer)
    /\ UNCHANGED <<position, series, timers, signal>>
    /\ UNCHANGED engineVars
    /\ UNCHANGED optVars

\* LineBuffer::home
HomeCall ==
    /\ buffer' = BufferHome(buffer)
    /\ UNCHANGED <<position, series, timers, signal>>
    /\ UNCHANGED engineVars
    /\ UNCHANGED optVars

\* LineBuffer::reset
ResetCall ==
    /\ buffer' = BufferClear(buffer)
    /\ UNCHANGED <<position, series, timers, signal>>
    /\ UNCHANGED engineVars
    /\ UNCHANGED optVars

InitBuffer ==
    /\ EngineIdle
    /\ position = NoPosition
    /\ buffer \in {NewBuffer("unbounded", 0)}
                    \cup {NewBuffer("qbuffer", n) : n \in 1..MaxLen}
    /\ series = NoSeries
    /\ timers = NoTimers
    /\ signal = NoSignal

NextBuffer ==
    \/ PushCall
    \/ ExtendCall
    \/ AdvanceCall
    \/ RewindCall
    \/ HomeCall
    \/ ResetCall

SpecBuffer == InitBuffer /\ [][NextBuffer]_vars

\* ----------------------------------------------------------- LineSeries
\* LineSeries() / LineSeries(qbuffer) after NumLines addLine calls
NewSeries(mode, maxlen) ==
    [mode |-> mode, lines |-> [i \in 1..NumLines |-> NewBuffer(mode, maxlen)]]

\* series.line(i).push(v): a value is appended to one line (the cursors do
\* not depend on the values, so one value is pushed)
SeriesPush ==
    /\ series.mode # "none"
    /\ \E i \in 1..NumLines :
          /\ series.lines[i].calls < MaxPush
          /\ series' = [series EXCEPT !.lines[i] = StoragePush(@, 1)]
    /\ UNCHANGED <<position, buffer, timers, signal>>
    /\ UNCHANGED engineVars
    /\ UNCHANGED optVars

\* LineSeries::advance: every line advances
SeriesAdvance ==
    /\ series.mode # "none"
    /\ \A i \in 1..NumLines : series.lines[i].pos < MaxPos
    /\ series' = [series EXCEPT
                    !.lines = [i \in 1..NumLines |-> BufferAdvance(@[i])]]
    /\ UNCHANGED <<position, buffer, timers, signal>>
    /\ UNCHANGED engineVars
    /\ UNCHANGED optVars

\* LineSeries::rewind: every line rewinds
SeriesRewind ==
    /\ series.mode # "none"
    /\ series' = [series EXCEPT
                    !.lines = [i \in 1..NumLines |-> BufferRewind(@[i])]]
    /\ UNCHANGED <<position, buffer, timers, signal>>
    /\ UNCHANGED engineVars
    /\ UNCHANGED optVars

\* LineSeries::home: every line goes home
SeriesHome ==
    /\ series.mode # "none"
    /\ series' = [series EXCEPT
                    !.lines = [i \in 1..NumLines |-> BufferHome(@[i])]]
    /\ UNCHANGED <<position, buffer, timers, signal>>
    /\ UNCHANGED engineVars
    /\ UNCHANGED optVars

InitSeries ==
    /\ EngineIdle
    /\ position = NoPosition
    /\ buffer = NoBuffer
    /\ series \in {NewSeries("unbounded", 0)}
                    \cup {NewSeries("qbuffer", n) : n \in 1..MaxLen}
    /\ timers = NoTimers
    /\ signal = NoSignal

NextSeries ==
    \/ SeriesPush
    \/ SeriesAdvance
    \/ SeriesRewind
    \/ SeriesHome

SpecSeries == InitSeries /\ [][NextSeries]_vars

\* --------------------------------------------------------- TimerManager
\* Datetimes of the bars handed to TimerManager::check, in one year:
\* month, day of the month, and hour * 60 + minute
DateTimes == [month : {1, 2}, day : {15, 16}, minutes : {540, 600}]

\* Order of datetimes
DtLeq(a, b) ==
    \/ a.month < b.month
    \/ a.month = b.month /\ a.day < b.day
    \/ a.month = b.month /\ a.day = b.day /\ a.minutes <= b.minutes

\* Timer as TimerManager::addTimer stores it: no weekday or monthday filter
NewTimer(tid, when, repeat, cheat) ==
    [tid |-> tid, when |-> when, offsetMinutes |-> 0,
     repeatMinutes |-> repeat, cheat |-> cheat, triggered |-> FALSE,
     nextTriggerMinutes |-> 0, lastTrigger |-> NoDateTime]

\* The timers added before the first check: one or two timers, for 9:30 or
\* 10:00, single shot or repeating every 30 minutes, cheat or not
TimerParams == [when : {570, 600}, repeat : {0, 30}, cheat : BOOLEAN]
TimerLists ==
    {<<NewTimer(0, a.when, a.repeat, a.cheat)>> : a \in TimerParams}
    \cup {<<NewTimer(0, 570, 0, FALSE), NewTimer(1, a.when, a.repeat, a.cheat)>> :
             a \in TimerParams}

\* Timer::check(dt) with empty weekday and monthday filters: [timer, fired]
TimerCheck(t, dt) ==
    LET triggerMinutes == t.when + t.offsetMinutes
        currentMinutes == dt.minutes
    IN  IF currentMinutes >= triggerMinutes /\ ~t.triggered
        THEN [timer |-> [t EXCEPT !.triggered = TRUE,
                                  !.lastTrigger = dt,
                                  !.nextTriggerMinutes =
                                      IF t.repeatMinutes > 0
                                      THEN triggerMinutes + t.repeatMinutes
                                      ELSE @],
              fired |-> TRUE]
        ELSE IF t.triggered /\ t.repeatMinutes > 0
                /\ currentMinutes >= t.nextTriggerMinutes
        THEN [timer |-> [t EXCEPT !.nextTriggerMinutes = @ + t.repeatMinutes,
                                  !.lastTrigger = dt],
              fired |-> TRUE]
        ELSE [timer |-> t, fired |-> FALSE]

\* Timer::resetDaily
ResetDaily(t) == [t EXCEPT !.triggered = FALSE, !.nextTriggerMinutes = 0]

\* The new-day test of TimerManager::check
NewDay(m, dt) == dt.day # m.lastDay

\* TimerManager::check(dt, cheatPhase)
ManagerCheck(m, dt, cheatPhase) ==
    LET reset == IF NewDay(m, dt)
                 THEN [i \in DOMAIN m.timers |-> ResetDaily(m.timers[i])]
                 ELSE m.timers
        lastDay == IF NewDay(m, dt) THEN dt.day ELSE m.lastDay
        res == [i \in DOMAIN reset |->
                   IF reset[i].cheat # cheatPhase
                   THEN [timer |-> reset[i], fired |-> FALSE]
                   ELSE TimerCheck(reset[i], dt)]
    IN  [timers |-> [i \in DOMAIN res |-> res[i].timer],
         lastDay |-> lastDay,
         prev |-> m.last,
         last |-> [checked |-> TRUE, dt |-> dt, cheatPhase |-> cheatPhase,
                   triggered |-> {res[i].timer.tid :
                                     i \in {k \in DOMAIN res : res[k].fired}}]]

\* A call of TimerManager::check for the next bar, or for the same bar again
CheckCall ==
    /\ timers.timers # <<>>
    /\ \E dt \in DateTimes, cheatPhase \in BOOLEAN :
          /\ timers.last.checked => DtLeq(timers.last.dt, dt)
          /\ timers' = ManagerCheck(timers, dt, cheatPhase)
    /\ UNCHANGED <<position, buffer, series, signal>>
    /\ UNCHANGED engineVars
    /\ UNCHANGED optVars

InitTimers ==
    /\ EngineIdle
    /\ position = NoPosition
    /\ buffer = NoBuffer
    /\ series = NoSeries
    /\ \E l \in TimerLists : timers = [NoTimers EXCEPT !.timers = l]
    /\ signal = NoSignal

NextTimers == CheckCall

SpecTimers == InitTimers /\ [][NextTimers]_vars

\* --------------------------------------------------------------- signal
\* enum SignalType
SignalTypes ==
    {"SIGNAL_NONE", "SIGNAL_LONGSHORT", "SIGNAL_LONG", "SIGNAL_LONG_INV",
     "SIGNAL_LONG_ANY", "SIGNAL_SHORT", "SIGNAL_SHORT_INV", "SIGNAL_SHORT_ANY",
     "SIGNAL_LONGEXIT", "SIGNAL_LONGEXIT_INV", "SIGNAL_LONGEXIT_ANY",
     "SIGNAL_SHORTEXIT", "SIGNAL_SHORTEXIT_INV", "SIGNAL_SHORTEXIT_ANY"}

\* Values handed to evaluate: numbers and NaN
SignalValues == {Number(v) : v \in -2..2} \cup {NaN}

\* Comparisons of a double with 0: every ordered comparison and == is false
\* for NaN, != is true
Eq0(v) == ~v.nan /\ v.value = 0
Gt0(v) == ~v.nan /\ v.value > 0
Lt0(v) == ~v.nan /\ v.value < 0
Ne0(v) == v.nan \/ v.value # 0

\* evaluate with *_ANY types that trigger on every value, zero included
Evaluate_AnyAlways(value, st) ==
    CASE st \in {"SIGNAL_LONG_ANY", "SIGNAL_LONGEXIT_ANY"} -> 1
      [] st \in {"SIGNAL_SHORT_ANY", "SIGNAL_SHORTEXIT_ANY"} -> -1
      [] Eq0(value) -> 0
      [] st = "SIGNAL_LONGSHORT" ->
            IF Gt0(value) THEN 1 ELSE IF Lt0(value) THEN -1 ELSE 0
      [] st \in {"SIGNAL_LONG", "SIGNAL_LONGEXIT_INV"} ->
            IF Gt0(value) THEN 1 ELSE 0
      [] st \in {"SIGNAL_LONG_INV", "SIGNAL_LONGEXIT"} ->
            IF Lt0(value) THEN 1 ELSE 0
      [] st \in {"SIGNAL_SHORT", "SIGNAL_SHORTEXIT_INV"} ->
            IF Lt0(value) THEN -1 ELSE 0
      [] st \in {"SIGNAL_SHORT_INV", "SIGNAL_SHORTEXIT"} ->
            IF Gt0(value) THEN -1 ELSE 0
      [] OTHER -> 0

\* signal_utils::evaluate(value, st)
Evaluate(value, st) ==
    IF Eq0(value) THEN 0
    ELSE CASE st = "SIGNAL_NONE" -> 0
           [] st = "SIGNAL_LONGSHORT" ->
                 IF Gt0(value) THEN 1 ELSE IF Lt0(value) THEN -1 ELSE 0
           [] st = "SIGNAL_LONG" -> IF Gt0(value) THEN 1 ELSE 0
           [] st = "SIGNAL_LONG_INV" -> IF Lt0(value) THEN 1 ELSE 0
           [] st = "SIGNAL_LONG_ANY" -> IF Ne0(value) THEN 1 ELSE 0
           [] st = "SIGNAL_SHORT" -> IF Lt0(value) THEN -1 ELSE 0
           [] st = "SIGNAL_SHORT_INV" -> IF Gt0(value) THEN -1 ELSE 0
           [] st = "SIGNAL_SHORT_ANY" -> IF Ne0(value) THEN -1 ELSE 0
           [] st = "SIGNAL_LONGEXIT" -> IF Lt0(value) THEN 1 ELSE 0
           [] st = "SIGNAL_LONGEXIT_INV" -> IF Gt0(value) THEN 1 ELSE 0
           [] st = "SIGNAL_LONGEXIT_ANY" -> IF Ne0(value) THEN 1 ELSE 0
           [] st = "SIGNAL_SHORTEXIT" -> IF Gt0(value) THEN -1 ELSE 0
           [] st = "SIGNAL_SHORTEXIT_INV" -> IF Lt0(value) THEN -1 ELSE 0
           [] st = "SIGNAL_SHORTEXIT_ANY" -> IF Ne0(value) THEN -1 ELSE 0
           [] OTHER -> 0

\* A call of evaluate on the chosen value and type
EvaluateCall ==
    /\ ~signal.called
    /\ signal' = [signal EXCEPT !.called = TRUE,
                                !.result = Evaluate(signal.value, signal.type)]
    /\ UNCHANGED <<position, buffer, series, timers>>
    /\ UNCHANGED engineVars
    /\ UNCHANGED optVars

InitSignal ==
    /\ EngineIdle
    /\ position = NoPosition
    /\ buffer = NoBuffer
    /\ series = NoSeries
    /\ timers = NoTimers
    /\ \E v \in SignalValues, st \in SignalTypes :
          signal = [NoSignal EXCEPT !.value = v, !.type = st]

NextSignal == EvaluateCall

SpecSignal == InitSignal /\ [][NextSignal]_vars

\* ================================================================ claims
Range(q) == {q[k] : k \in DOMAIN q}
Max(a, b) == IF a > b THEN a ELSE b
NoSlippage == cfg.slipPerc = 0 /\ cfg.slipFixed = 0

\* A step that is the broker's matching of the bar under the cursor
MatchingStep == pc = "broker" /\ pc' # "broker"

\* Total size executed on the order with this ref
RECURSIVE FilledUpTo(_, _)
FilledUpTo(ref, k) ==
    IF k = 0 THEN 0
    ELSE FilledUpTo(ref, k - 1)
         + (IF fills[k].ref = ref THEN fills[k].size ELSE 0)

Filled(ref) == FilledUpTo(ref, Len(fills))

\* C1: with no cheat mode (and no slippage), an order created during loop
\* bar N is never executed during bar N; a Market order created during bar
\* N is executed during the matching of bar N+1, at the open of the N+1-th
\* loaded bar.
C1_MarketFillsAtNextOpen ==
    /\ \A k \in DOMAIN fills : fills[k].bar > born[fills[k].ref]
    /\ \A k \in DOMAIN fills :
          (orders[fills[k].ref].type = "Market" /\ NoSlippage)
             => /\ fills[k].bar = born[fills[k].ref] + 1
                /\ fills[k].price = LoadedBar(fills[k].bar).open
    /\ \A i \in DOMAIN orders :
          (/\ orders[i].type = "Market"
           /\ born[i] < bar
           /\ pc \in {"strategy", "inhook", "analyzers", "observers"}
           /\ orders[i].status # "Canceled")
             => orders[i].status = "Completed"

\* C2: an order in a terminal status (Completed, Canceled, Expired, Margin,
\* Rejected) keeps that status in every later step.
C2_TerminalStatusIsFinal ==
    [][\A i \in DOMAIN orders :
          (i \in DOMAIN orders' /\ orders[i].status \in Terminal)
             => orders'[i].status = orders[i].status]_vars

\* C3: for the bar being processed, broker matching has completed before the
\* strategy hook starts, and the strategy hook has completed before any
\* analyzer or observer next() runs.
PhaseBefore(a, b) ==
    \A j \in DOMAIN phases :
        phases[j] = b => \E i \in 1..(j - 1) : phases[i] = a

C3_BrokerThenStrategyThenObservers ==
    /\ PhaseBefore("broker", "strategy")
    /\ PhaseBefore("strategy", "strategy_done")
    /\ PhaseBefore("strategy_done", "analyzers")
    /\ PhaseBefore("strategy_done", "observers")
    /\ (pc = "inhook" => "broker" \in Range(phases))
    /\ \A k \in DOMAIN fills : fills[k].bar <= bar
    /\ \A k \in DOMAIN fills :
          (fills[k].bar = bar /\ pc \notin {"stop", "done"})
             => "broker" \in Range(phases)

C3_Witness ==
    /\ phases = <<"broker", "strategy", "strategy_done", "analyzers",
                  "observers">>
    /\ \E k \in DOMAIN fills : fills[k].bar = bar - 1

\* C4: with minimum period p >= 1, start is the first hook and is called
\* once; the hook of bar b is prenext iff b < p - 1, nextstart iff b = p - 1
\* (the first bar with index >= p - 1), next iff b > p - 1; every bar gets
\* one hook, in order; stop is called once, after the last bar hook.
BarHooks == {"prenext", "nextstart", "next"}
HookCount(h) == Cardinality({k \in DOMAIN hooks : hooks[k].hook = h})

C5_OcoPeerCanceled ==
    \A i \in DOMAIN orders :
        (orders[i].oco # 0 /\ orders[i].status \in {"Completed", "Canceled"})
           => orders[orders[i].oco].status = "Canceled"

\* C6: no child order of a bracket is executed while its parent is not
\* Completed.
C6_ChildWaitsForParent ==
    \A k \in DOMAIN fills :
        orders[fills[k].ref].parent # 0 => fills[k].parentStatus = "Completed"

\* C7: an order of which less than its size has been executed is Partial
\* with remaining size = size - filled size; an order is Completed only when
\* the cumulative executed size equals its size.
C7_PartialFillStaysPartial ==
    \A i \in DOMAIN orders :
        /\ orders[i].status = "Completed" => Filled(i) = orders[i].size
        /\ (0 < Filled(i) /\ Filled(i) < orders[i].size)
              => /\ orders[i].status = "Partial"
                 /\ orders[i].executedRemsize = orders[i].size - Filled(i)

\* C8: in the matching of a bar, a pending sell Stop with low <= stop is
\* filled at min(open, stop), and a pending buy Stop with high >= stop is
\* filled at max(open, stop) (no slippage configured).
C8_StopTriggers ==
    [][(MatchingStep /\ NoSlippage) =>
          \A i \in DOMAIN orders :
             LET o == orders[i]
                 b == LoadedBar(feed.pos)
             IN  (o.type = "Stop" /\ o.status = "Submitted"
                  /\ o.data \in KnownData)
                    => /\ (o.side = "Sell" /\ b.low <= o.price)
                             => /\ orders'[i].status = "Completed"
                                /\ orders'[i].execPrice = Min(b.open, o.price)
                       /\ (o.side = "Buy" /\ b.high >= o.price)
                             => /\ orders'[i].status = "Completed"
                                /\ orders'[i].execPrice = Max(b.open, o.price)]_vars

\* C9: with no slippage, the matching of a bar fills a pending buy Limit iff
\* low <= limit, at min(open, limit), and a pending sell Limit iff
\* high >= limit, at max(open, limit); an order that is not filled is left
\* as it was.
LimitCondition(o, b) ==
    IF o.side = "Buy" THEN b.low <= o.price ELSE b.high >= o.price

LimitPrice(o, b) ==
    IF o.side = "Buy" THEN Min(b.open, o.price) ELSE Max(b.open, o.price)

C9_LimitMatching ==
    [][(MatchingStep /\ NoSlippage) =>
          \A i \in DOMAIN orders :
             LET o == orders[i]
                 b == LoadedBar(feed.pos)
             IN  (o.type = "Limit" /\ o.status = "Submitted"
                  /\ o.data \in KnownData)
                    => /\ orders'[i].status = "Completed"
                             <=> LimitCondition(o, b)
                       /\ LimitCondition(o, b)
                             => /\ orders'[i].execPrice = LimitPrice(o, b)
                                /\ Filled(i)' > Filled(i)
                       /\ ~LimitCondition(o, b) => orders'[i] = o]_vars

\* A buy Limit filled at its limit below the open, a sell Limit filled at the
\* open above its limit, and a Limit order that a bar left pending
C9_Witness ==
    /\ NoSlippage
    /\ \E k \in DOMAIN fills :
          LET o == orders[fills[k].ref]
          IN  /\ o.type = "Limit"
              /\ o.side = "Buy"
              /\ fills[k].price = o.price
              /\ LoadedBar(fills[k].cursor).open > o.price
    /\ \E i \in DOMAIN orders :
          /\ orders[i].type = "Limit"
          /\ orders[i].status = "Submitted"
          /\ born[i] < bar - 1

\* C10: in the matching of a bar whose datetime exceeds valid_until > 0, a
\* pending order that is not a Market order becomes Expired (and so is not
\* filled).
C10_ExpiresAfterValidUntil ==
    [][MatchingStep =>
          \A i \in DOMAIN orders :
             (/\ orders[i].status = "Submitted"
              /\ orders[i].type # "Market"
              /\ orders[i].validUntil > 0
              /\ LoadedBar(feed.pos).datetime > orders[i].validUntil)
                => orders'[i].status = "Expired"]_vars

\* The bar's matching has run and the loop is past it
AfterMatching == pc \in {"strategy", "inhook", "analyzers", "observers"}

\* The order with this ref was handed to the order callback with the status
Notified(ref, status) ==
    \E k \in DOMAIN notifications :
        notifications[k].ref = ref /\ notifications[k].status = status

\* C11: an order for a data name the broker does not know is Rejected, and
\* the order callback has been called with it, at the latest once the
\* matching of the bar after its creation has run; the run goes on to its end.
C11_UnknownDataRejected ==
    \A i \in DOMAIN orders :
        (/\ orders[i].data \notin KnownData
         /\ \/ born[i] < bar /\ AfterMatching
            \/ born[i] + 1 < bar
            \/ pc = "done")
           => /\ orders[i].status = "Rejected"
              /\ Notified(i, "Rejected")

\* Broker::cash_ when the order with this ref was submitted: the starting
\* cash and the executions up to the loop bar of the submission
RECURSIVE CashUpTo(_, _)
CashUpTo(b, k) ==
    IF k = 0 THEN cfg.cash
    ELSE LET f == fills[k]
             amount == f.price * f.size
             comm == GetCommission(f.size, f.price)
         IN  CashUpTo(b, k - 1)
             + (IF f.bar > b THEN 0
                ELSE IF orders[f.ref].side = "Buy" THEN -(amount + comm)
                ELSE amount - comm)

CashAtSubmit(i) == CashUpTo(born[i], Len(fills))

\* C12: with checksubmit = true (the default), a buy Limit order whose cost
\* size * price exceeds the cash at submit time is Margin, and the order
\* callback has been called with it, at the latest once the matching of the
\* bar after its creation has run; it is never executed.
C12_MarginOnSubmit ==
    \A i \in DOMAIN orders :
        (/\ orders[i].side = "Buy"
         /\ orders[i].type = "Limit"
         /\ orders[i].data \in KnownData
         /\ orders[i].size * orders[i].price > CashAtSubmit(i))
           => /\ Filled(i) = 0
              /\ (\/ born[i] < bar /\ AfterMatching
                  \/ born[i] + 1 < bar
                  \/ pc = "done")
                    => /\ orders[i].status = "Margin"
                       /\ Notified(i, "Margin")

\* C13: while the matching and the strategy hook of loop bar i run, the
\* cursor of the feed is on the i-th loaded bar.
C13_CursorAtLoopBar ==
    pc \in {"broker", "strategy", "inhook"} => feed.pos = bar

\* C14: once stop() has been called after run() was entered, the loop does
\* not start another bar: its next test leaves the loop.
C14_StopEndsLoop ==
    [][(stopCall.called /\ pc = "loop") => pc' = "stop"]_vars

\* The open-phase hook of a loop bar
OpenHookFor(b) ==
    IF b < MinPeriod - 1 THEN "prenextOpen"
    ELSE IF b = MinPeriod - 1 THEN "nextstartOpen"
    ELSE "nextOpen"

\* C15: with cheat-on-open enabled, when the matching of a bar has run, the
\* open-phase hook of that bar has been called.
C15_OpenHookBeforeMatching ==
    (cfg.cheatOnOpen /\ AfterMatching)
       => \E k \in DOMAIN hooks :
             hooks[k].bar = bar /\ hooks[k].hook = OpenHookFor(bar)

\* C16: no step of runOptimize or of its workers changes the state of the
\* shared data feed (name, cursor).
C16_SharedFeedReadOnly ==
    [][opt.shared' = opt.shared]_vars

\* The task with this id has been run once and its future is ready, holding
\* the task's value or the exception it threw
TaskDone(t) ==
    /\ t \in DOMAIN owner.futures
    /\ owner.futures[t].state = TaskOutcome(t)
    /\ owner.futures[t].runs = 1

\* C17: a task is never run twice, a ready future holds the result of its
\* task, get() returns only from a ready future, and every submitted task is
\* eventually run, with its future made ready.
C17_TaskRunsOnce ==
    /\ [](\A t \in DOMAIN owner.futures :
             LET f == owner.futures[t]
             IN  /\ f.runs <= 1
                 /\ f.state # "pending" <=> f.runs = 1
                 /\ f.state # "pending" => f.state = TaskOutcome(t)
                 /\ f.state = "value" => f.value = TaskResult(t)
                 /\ f.got => f.state # "pending")
    /\ \A t \in 1..MaxTasks :
          (t \in DOMAIN owner.futures) ~> TaskDone(t)

C17_Witness ==
    /\ Len(owner.futures) = MaxTasks
    /\ \A t \in 1..MaxTasks : TaskDone(t) /\ owner.futures[t].got
    /\ owner.futures[1].value = TaskResult(1)

\* C18: when waitAll returns, the queue is empty, no task is being executed,
\* and every task submitted so far has finished.
C18_WaitAllQuiescent ==
    [][(owner.pc = "waitall" /\ owner'.pc = "ready") =>
          /\ pool.tasks = <<>>
          /\ pool.activeJobs = 0
          /\ \A w \in DOMAIN pool.workers :
                pool.workers[w].pc \notin {"task", "finish"}
          /\ \A t \in DOMAIN owner.futures :
                owner.futures[t].state # "pending"]_vars

\* waitAll has returned after blocking, with every task submitted and done
C18_Witness ==
    /\ owner.pc = "ready"
    /\ owner.waited
    /\ owner.blocked
    /\ Len(owner.futures) = MaxTasks
    /\ \A t \in 1..MaxTasks : owner.futures[t].state # "pending"

\* Product of the numbers of values of the first j parameters of a grid
RECURSIVE GridProduct(_, _)
GridProduct(grid, j) ==
    IF j = 0 THEN 1 ELSE Len(grid[j]) * GridProduct(grid, j - 1)

C20_FailedRunGetsSentinel ==
    (/\ owner.prog = "optimize"
     /\ owner.pc \in {"returned", "thrown"}
     /\ \E i \in DOMAIN opt.paramSets :
           RunThrows(opt.strategy, opt.paramSets[i]))
       => /\ owner.pc = "returned"
          /\ Len(opt.results) = Len(opt.paramSets)
          /\ \A t \in DOMAIN opt.paramSets :
                /\ t \in DOMAIN owner.futures
                /\ owner.futures[t].runs = 1
          /\ \A i \in DOMAIN opt.paramSets :
                RunThrows(opt.strategy, opt.paramSets[i])
                   => \E k \in DOMAIN opt.results :
                         /\ opt.results[k].params = opt.paramSets[i]
                         /\ opt.results[k].pnl = Sentinel
                         /\ opt.results[k].pnlPct = Sentinel

\* The position before the k-th execution of the run: trades[k] records the
\* signed size and the price of the k-th execution
RECURSIVE PosBefore(_)
PosBefore(k) ==
    IF k = 1 THEN [size |-> 0, price |-> RInt(0)]
    ELSE UpdatePosition(PosBefore(k - 1), trades[k - 1].size > 0,
                        trades[k - 1].price, Abs(trades[k - 1].size))

\* C21: the gross pnl of a closed trade is (exit price - entry average
\* price) x |size| for a long position and (entry average price - exit
\* price) x |size| for a short one.
C21_GrossPnl ==
    \A k \in DOMAIN trades :
       ~trades[k].isOpen =>
          LET p == PosBefore(k)
              exit == RInt(trades[k].price)
          IN  trades[k].pnl =
                 IF p.size > 0
                 THEN RMulInt(RSub(exit, p.price), Abs(p.size))
                 ELSE RMulInt(RSub(p.price, exit), Abs(p.size))

\* Sum of the commissions of the executions of the trade that the k-th
\* execution belongs to, from the one that opened the position on
RECURSIVE CommissionTotal(_)
CommissionTotal(k) ==
    trades[k].commission
       + (IF PosBefore(k).size = 0 THEN 0 ELSE CommissionTotal(k - 1))

\* C22: for every closed trade, pnl_comm = pnl - commission_total, the sum
\* of the commissions of the trade's opening and closing executions.
C22_PnlNetOfCommissions ==
    \A k \in DOMAIN trades :
       ~trades[k].isOpen =>
          trades[k].pnlComm = RSub(trades[k].pnl, RInt(CommissionTotal(k)))

\* C24: with slippage configured (slip_out is false, its default), the price
\* of every fill lies within [low, high] of the bar it was matched on.
C24_SlippageClamped ==
    (cfg.slipPerc > 0 \/ cfg.slipFixed > 0) =>
       \A k \in DOMAIN fills :
          /\ LoadedBar(fills[k].cursor).low <= fills[k].price
          /\ fills[k].price <= LoadedBar(fills[k].cursor).high

\* C23: after Position::update with an opposite-side execution larger than
\* the position, the position's size is the signed remainder and its average
\* price is the price of that execution.
C23_CrossingZero ==
    (/\ position.last.update
     /\ position.last.size # 0
     /\ (position.last.size > 0) # (position.last.delta > 0)
     /\ Abs(position.last.delta) > Abs(position.last.size))
       => /\ position.size = position.last.size + position.last.delta
          /\ position.price = RInt(position.last.price)

\* C25: in every line buffer, size <= total_pushed (length), and the cursor
\* of a buffer that holds values satisfies 0 <= pos <= size - 1.
C25_CursorWithinBuffer ==
    /\ StorageSize(buffer) <= StorageLength(buffer)
    /\ StorageSize(buffer) > 0 =>
          (0 <= buffer.pos /\ buffer.pos <= StorageSize(buffer) - 1)

\* C26 as stated: after n values were pushed, size = n and length >= n.
C26_SizeIsPushCount ==
    /\ StorageSize(buffer) = Len(buffer.pushed)
    /\ StorageLength(buffer) >= Len(buffer.pushed)

\* C26, amended: after n values were pushed and any cursor trajectory,
\* length = n, and size = n for an unbounded buffer, min(n, capacity) for a
\* bounded one.
C26_SizeAndLength ==
    /\ StorageLength(buffer) = Len(buffer.pushed)
    /\ StorageSize(buffer) =
          IF buffer.mode = "unbounded" THEN Len(buffer.pushed)
          ELSE Min(Len(buffer.pushed), buffer.maxlen)

C26_Witness ==
    /\ buffer.mode = "qbuffer"
    /\ buffer.maxlen = 1
    /\ Len(buffer.pushed) = 3
    /\ buffer.pos = 1
    /\ StorageSize(buffer) = 1

\* C27: a bounded buffer of capacity N that has received N+k pushes has
\* size N and length N+k, and for any cursor position reading offset j,
\* 0 <= j < N, gives the (j+1)-th most recently pushed value.
C27_BoundedKeepsLatest ==
    (buffer.mode = "qbuffer" /\ Len(buffer.pushed) >= buffer.maxlen) =>
       /\ StorageSize(buffer) = buffer.maxlen
       /\ StorageLength(buffer) = Len(buffer.pushed)
       /\ \A j \in 0..(buffer.maxlen - 1) :
             StorageAt(buffer, j) =
                Number(buffer.pushed[Len(buffer.pushed) - j])

C27_Witness ==
    /\ buffer.mode = "qbuffer"
    /\ buffer.maxlen = 2
    /\ Len(buffer.pushed) = 4
    /\ buffer.pos = 3
    /\ StorageAt(buffer, 0) = Number(2)
    /\ StorageAt(buffer, 1) = Number(1)

\* C28: every line of a line series has the same cursor position.
C28_OneCursor ==
    series.mode # "none" =>
       \A i, j \in 1..NumLines : series.lines[i].pos = series.lines[j].pos

\* C29: when the checked bar is on another calendar day than the bar
\* checked before it, every single-shot timer of the checked phase whose
\* trigger time has been reached is among the timers the check returns.
C29_TimersFireOnNewDay ==
    (/\ timers.last.checked
     /\ timers.prev.checked
     /\ (timers.prev.dt.day # timers.last.dt.day
         \/ timers.prev.dt.month # timers.last.dt.month))
       => \A i \in DOMAIN timers.timers :
             LET t == timers.timers[i]
             IN  (/\ t.repeatMinutes = 0
                  /\ t.cheat = timers.last.cheatPhase
                  /\ timers.last.dt.minutes >= t.when + t.offsetMinutes)
                    => t.tid \in timers.last.triggered

\* The *_ANY signal types
AnyTypes ==
    {"SIGNAL_LONG_ANY", "SIGNAL_SHORT_ANY", "SIGNAL_LONGEXIT_ANY",
     "SIGNAL_SHORTEXIT_ANY"}

ClosedTrades == Cardinality({k \in DOMAIN trades : ~trades[k].isOpen})

\* C31: when run() has returned, the total_trades entry the TradeAnalyzer
\* published equals the number of closed trades the broker recorded in that
\* run.
C31_TotalTradesCountsClosed ==
    (pc = "done" /\ analyzer.analysis.set)
        => analyzer.analysis.total_trades = ClosedTrades

\* C32: run() returns an empty vector when there is no bar to process: no
\* feed was added, or the feed that was added has no bar.
C32_NoBarsNoResults ==
    (pc = "done" /\ (cfg.feeds = 0 \/ cfg.bars = 0)) => results = <<>>

\* C33: an order that was passed to Strategy::cancel while alive is Canceled
\* from then on, and no execution of it is recorded after the call.
C33_CancelCancels ==
    [][\A c \in cancelCalls' :
          (c.run = runs' /\ c.ref \in DOMAIN orders')
              => /\ orders'[c.ref].status = "Canceled"
                 /\ (c \in cancelCalls
                        => \A k \in DOMAIN fills' :
                              fills'[k].ref = c.ref => k \in DOMAIN fills)]_vars

\* C34: an Order::execute call that brings the executed size of an order of
\* size S to s <= S leaves the remaining size at S - s and the status at
\* Partial when s < S, Completed when s = S.
C34_ExecuteAccounting ==
    [][(/\ orders'[1].executedSize > orders[1].executedSize
        /\ orders'[1].executedSize <= orders[1].size)
          => /\ orders'[1].executedRemsize
                    = orders[1].size - orders'[1].executedSize
             /\ orders'[1].status
                    = IF orders'[1].executedSize < orders[1].size
                      THEN "Partial" ELSE "Completed"]_vars

\* Every worker thread of the pool has left workerLoop
AllExited == \A w \in DOMAIN pool.workers : pool.workers[w].pc = "exited"

\* C35: destroying a ThreadPool drops no work.  A worker leaves workerLoop
\* only when the queue is empty; once all workers have left, every task that
\* was submitted has been run; the destructor returns only when all workers
\* have left; and once the stop flag is set the destructor does return.
C35_DestroyDrainsQueue ==
    /\ [](\A w \in DOMAIN pool.workers :
             pool.workers[w].pc = "exited" => (pool.stop /\ pool.tasks = <<>>))
    /\ [](AllExited => \A t \in DOMAIN owner.futures : TaskDone(t))
    /\ [](owner.pc = "destroyed" => AllExited)
    /\ (pool.stop ~> owner.pc = "destroyed")

\* The destructor has set the stop flag and woken the workers while tasks
\* are still in the queue.
C35_Witness ==
    /\ pool.stop
    /\ owner.pc = "joining"
    /\ pool.tasks # <<>>

\* C36: the RunResult of every strategy of a run starts from the configured
\* cash with no position open, and lists no trade that is in the result of a
\* strategy run before it.
C36_ResultsAreSeparate ==
    \A k \in DOMAIN results :
        /\ results[k].startCash = cfg.cash
        /\ results[k].startSize = 0
        /\ \A j \in 1..(k - 1) :
              Range(results[j].trades) \cap Range(results[k].trades) = {}

\* Observers of a kind that setupObservers added
AutoObservers(kind) ==
    {i \in DOMAIN observers : observers[i].auto /\ observers[i].kind = kind}

\* C37: with stdstats, when a run() has returned (the first or a later one)
\* exactly one automatically added cash observer and one value observer are
\* attached, and (one strategy) each holds one value per bar that run
\* processed.
C37_ObserversDoNotAccumulate ==
    (pc = "done" /\ cfg.stdstats /\ cfg.feeds > 0)
        => \A kind \in {"Cash", "Value"} :
              /\ Cardinality(AutoObservers(kind)) = 1
              /\ cfg.strategies = 1
                    => \A i \in AutoObservers(kind) :
                          StorageLength(observers[i].lines[1]) = bar

\* Order of exact fractions
RLeq(a, b) == a.n * b.d <= b.n * a.d

\* C39: every value on the maxdrawdown line of the DrawDownObserver is the
\* largest of the drawdown values recorded up to and including its bar.
C39_MaxDrawdownIsRunningMax ==
    \A i \in DOMAIN observers :
        observers[i].kind = "DrawDown"
            => LET dd == observers[i].lines[1].data
                   mdd == observers[i].lines[2].data
               IN  \A k \in DOMAIN mdd :
                      /\ \A j \in 1..k : RLeq(dd[j], mdd[k])
                      /\ \E j \in 1..k : mdd[k] = dd[j]

\* C40: for every grid, the grid without parameters and grids with an empty
\* value list included, generate() yields totalCombinations() parameter
\* sets.
C40_TotalIsGeneratedSize ==
    (owner.prog = "optimize" /\ owner.pc # "opt_start")
        => Len(opt.paramSets) = GridTotalCombinations(opt.grid)

\* C38: under the LongOnly policy the position of a SignalStrategy is never
\* negative, and every sell order the strategy submits is for the size of
\* the long position held when it is submitted.
C38_LongOnlyNeverShort ==
    /\ [](cfg.accumMode = "LongOnly" => pos.size >= 0)
    /\ [][cfg.accumMode = "LongOnly"
            => \A i \in (DOMAIN orders') \ (DOMAIN orders) :
                  orders'[i].side = "Sell"
                      => (pos.size > 0 /\ orders'[i].size = pos.size)]_vars

\* A LongOnly run in which a long position was opened and a sell order
\* closed it again
C38_Witness ==
    /\ cfg.accumMode = "LongOnly"
    /\ pos.size = 0
    /\ \E i \in DOMAIN orders :
          orders[i].side = "Sell" /\ orders[i].status = "Completed"


====
